---- MODULE Spec2Model ----
(***************************************************************************)
(* Conversation state of the cabej assistant: the App component            *)
(* (src/src/App.tsx), the conversations service (src/unnamed/part_000,     *)
(* lines 212-537 are the current version, lines 1-211 the legacy one) and  *)
(* the useLocalStorage hook (src/unnamed/part_003).                        *)
(*                                                                         *)
(* One action is one synchronous segment of a handler or of an async       *)
(* continuation, together with the render it causes and the effects of     *)
(* that render (React 18 batches the state updates of a segment).          *)
(***************************************************************************)
EXTENDS Integers, Sequences, FiniteSets, TLC

\* ---------------------------------------------------------------- bounds
\* user events, events of other tabs and injected failures of Firestore calls:
\* in a run with sign-in and sign-out, and in a run under one identity
MaxEvents == 3
MaxSessionEvents == 4
\* the same in a run checked for progress
MaxLiveEvents == 3
\* matches in a query response (the code asks for topK: 5)
MaxMatches == 3
MaxHistory == 2
MaxStamp == 4
MaxDocuments == 6
MaxCalls == 2
MaxGuestEvents == 3
MaxSelections == 4
MaxWrites == 3
\* dimension of an embedding (1536 in the service)
Dim == 2
\* runs of handleGuestToAuthTransition
MaxMigrations == 2

\* ------------------------------------------------------------- input sets
NULL == "null"
Users == {"u1"}
Inputs == {"q1", "q2"}
BlankInputs == {"", " "}
NoId == <<"none", 0, 0>>
NoStamp == <<"none", 0>>

\* What a call of generateResponse(prompt) can return.
Responses(prompt) == {"r1", "r2"}

\* the messages of displayError
TransferError == "Error transferring conversations. Your guest conversations are still available."
LoadError == "Unable to load conversations. Please try again later."
SubmitError == "Error generating response. Please try again later."
DeleteError == "Error deleting conversation. Please try again."

\* Ids are unique: Date.now() and Math.random() for messages and guest
\* conversations, server-assigned for documents.  A submission and another
\* tab's update use the number of their event, a transfer its own number and
\* the index of the conversation in the batch.

VARIABLES
  build,                 \* version of the conversations service in the bundle
  budget,                \* the number of events the run may take
  user,                  \* useAuth().user
  guestConversations,    \* useLocalStorage state for 'guest-conversations'
  localStorage,          \* window.localStorage['guest-conversations']
  authConversations,
  activeConversationId,
  conversationHistory,
  isLoading,
  error,
  showError,
  db,                    \* the Firestore 'conversations' collection, in creation order
  submission,            \* the handleSubmit call in flight, with the values its closure holds
  migrations,            \* the handleGuestToAuthTransition calls in flight
  loads,                 \* the loadUserConversations calls in flight, per user
  deletions,             \* the handleDeleteConversation calls in flight
  nEvents,               \* events so far (bounded by MaxEvents)
  nMigrations,           \* runs of handleGuestToAuthTransition so far
  call,                  \* the last call of a function of the ai and embeddings services
  sessionStorage,        \* window.sessionStorage['guestConversations']
  userMessages,          \* the Firestore documents users/{userId}/messages/{messageId}
  tabs,                  \* useLocalStorage in two tabs: storedValue and the storage events to come
  captcha                \* useLocalStorage state for 'captcha-completed', its item and the sync timer

reactVars == <<user, guestConversations, localStorage, authConversations,
               activeConversationId, conversationHistory, isLoading, error, showError>>
taskVars == <<submission, migrations, loads, deletions>>
countVars == <<nEvents, nMigrations>>
feedbackVars == <<sessionStorage, userMessages>>
vars == <<call, feedbackVars, tabs, captcha, build, budget, reactVars, db, taskVars, countVars>>

\* ------------------------------------------------------------ sequences
RECURSIVE Reverse(_)
Reverse(s) == IF s = <<>> THEN <<>> ELSE Append(Reverse(Tail(s)), Head(s))

Range(s) == {s[i] : i \in 1..Len(s)}

RECURSIVE MapUpdate(_, _, _)
\* guestConversations.map(conv => conv.id === id ? upd : conv)
MapUpdate(s, id, upd) ==
  IF s = <<>> THEN <<>>
  ELSE <<IF Head(s).id = id
           THEN [Head(s) EXCEPT !.input = upd.input, !.response = upd.response,
                                !.history = upd.history]
           ELSE Head(s)>> \o MapUpdate(Tail(s), id, upd)

RemoveAt(s, i) == SubSeq(s, 1, i - 1) \o SubSeq(s, i + 1, Len(s))

Trim(s) == IF s \in BlankInputs THEN "" ELSE s

\* ------------------------------------------------- conversations service
\* current version: id = role-Date.now()-Math.random(), here the stamp of the
\* call; legacy version (lines 47-51): no id and timestamp null
createMessage(role, content, stamp) ==
  [role |-> role, content |-> content,
   id |-> IF build = "legacy" THEN NoStamp ELSE stamp]

\* the messages handleSubmit builds itself: role, content, timestamp, no id
newMessages(input, response) ==
  << [role |-> "user", content |-> input, id |-> NoStamp],
     [role |-> "assistant", content |-> response, id |-> NoStamp] >>

\* a last-write-wins update of the array: the written value replaces the stored one
arrayOverwrite(old, new) == new

RECURSIVE arrayUnion(_, _)
\* Firestore arrayUnion: each element is added unless the array holds an equal one
arrayUnion(old, new) ==
  IF new = <<>> THEN old
  ELSE arrayUnion(IF Head(new) \in Range(old) THEN old ELSE Append(old, Head(new)),
                  Tail(new))

baseConversation(input, response, u, history, n) ==
  [id |-> NoId, input |-> input, response |-> response,
   userId |-> u, userType |-> IF u # NULL THEN "auth" ELSE "guest",
   history |-> history \o <<createMessage("user", input, <<"tab", n>>),
                            createMessage("assistant", response, <<"tab", n>>)>>]

addDoc(store, data, n, i) == Append(store, [data EXCEPT !.id = <<"doc", n, i>>])

saveConversation(input, response, u, history, n) ==
  IF u # NULL
    THEN [baseConversation(input, response, u, history, n) EXCEPT !.id = <<"doc", n, 0>>]
    ELSE [baseConversation(input, response, u, history, n) EXCEPT !.id = <<"guest", n, 0>>]

\* an update that appends to history and leaves input and response as they were
updateHistoryOnly(store, id, input, response, stamp) ==
  [i \in 1..Len(store) |->
     IF store[i].id = id
       THEN [store[i] EXCEPT
               !.history = arrayUnion(@, <<createMessage("user", input, stamp),
                                           createMessage("assistant", response, stamp)>>)]
       ELSE store[i]]

RECURSIVE updateConversationHistory(_, _, _, _, _)
\* updateDoc(ref, {history: arrayUnion(...newMessages), input, response})
updateConversationHistory(store, id, input, response, stamp) ==
  IF store = <<>> THEN <<>>
  ELSE <<IF Head(store).id = id
           THEN [Head(store) EXCEPT
                   !.history = arrayUnion(@, <<createMessage("user", input, stamp),
                                               createMessage("assistant", response, stamp)>>),
                   !.input = input, !.response = response]
           ELSE Head(store)>> \o updateConversationHistory(Tail(store), id, input, response, stamp)

getUserConversations(store, u) ==
  Reverse(SelectSeq(store, LAMBDA d : d.userId = u))

deleteConversation(store, id) == SelectSeq(store, LAMBDA d : d.id # id)

\* a transfer that sets the owner and keeps the conversation's userType
transferredAsGuest(conv, u) == [conv EXCEPT !.id = NoId, !.userId = u]

\* the document one addDoc of transferGuestConversations writes
transferredConversation(conv, u) ==
  [conv EXCEPT !.id = NoId, !.userId = u, !.userType = "auth"]

\* Conversations an earlier session of this program left in local storage,
\* and in the account of user u.
PriorA == saveConversation("q1", "r1", NULL, <<>>, -1)
PriorB == saveConversation("q2", "r2", NULL, <<>>, -2)
PriorGuestConversations == {<<>>, <<PriorA>>, <<PriorB, PriorA>>}
PriorDocuments(u) ==
  {<<>>, <<saveConversation("q1", "r1", u, <<>>, -1)>>,
   <<saveConversation("q1", "r1", u, <<>>, -1),
     saveConversation("q2", "r2", u, <<>>, -2)>>}

\* BaseConversation.history is optional: the history of a conversation that
\* was stored without the field
NoHistory == <<[role |-> "none", content |-> "", id |-> NoStamp]>>

\* a conversation stored before conversations had a history
PriorWithoutHistory == [PriorB EXCEPT !.history = NoHistory]

\* ------------------------------------------------------------ the render
conversations(u, guest, auth) == IF u # NULL THEN auth ELSE guest

\* activeConversationId ? conversations.find(...) : null
activeConversation(u, guest, auth, id) ==
  LET found == SelectSeq(conversations(u, guest, auth), LAMBDA c : c.id = id)
  IN IF id = NoId THEN <<"null", <<>>>>
     ELSE IF found = <<>> THEN <<"undefined", <<>>>>
     ELSE <<"conv", <<found[1]>>>>

IdsOf(s) == {s[i].id : i \in 1..Len(s)}

NoSubmission ==
  [pc |-> "idle", input |-> "", response |-> "", history |-> <<>>,
   activeConversationId |-> NoId, user |-> NULL, guestConversations |-> <<>>,
   saved |-> NoId, n |-> 0]

\* next: the addDoc calls of the batch settle in the order they were issued
newMigration(guest, u, n) ==
  [guestConversations |-> guest, user |-> u, next |-> 1,
   rejected |-> FALSE, pc |-> "transfer", n |-> n]

\* the state a handler leaves behind when it sets nothing
Same ==
  [user |-> user, guest |-> guestConversations, gset |-> FALSE,
   auth |-> authConversations, id |-> activeConversationId,
   history |-> conversationHistory, fresh |-> {}, rendered |-> TRUE,
   migrations |-> migrations, loads |-> loads]

\* The render that follows a batch of state updates, and its effects:
\* loadUserConversations (deps [user]), handleGuestToAuthTransition (deps
\* [user, guestConversations, setGuestConversations]; setGuestConversations is
\* a new function in every render, so the effect runs after every render),
\* the effect on [activeConversation], and useLocalStorage's sync effect.
\* r.fresh: the ids of the conversation objects the batch created;
\* r.gset: setGuestConversations was called; r.rendered: some state changed.
Commit(r) ==
  LET before == activeConversation(user, guestConversations, authConversations,
                                   activeConversationId)
      after == activeConversation(r.user, r.guest, r.auth, r.id)
      changed == r.rendered /\
                 (before # after \/ (after[1] = "conv" /\ r.id \in r.fresh))
      starts == r.rendered /\ r.user # NULL /\ r.guest # <<>>
                /\ nMigrations < MaxMigrations
  IN /\ user' = r.user
     /\ guestConversations' = r.guest
     /\ localStorage' = IF r.gset \/ r.guest # guestConversations
                          THEN r.guest ELSE localStorage
     /\ authConversations' = r.auth
     /\ activeConversationId' = r.id
     /\ conversationHistory' =
          IF ~changed THEN r.history
          ELSE IF after[1] = "conv" /\ after[2][1].history # NoHistory
               THEN after[2][1].history ELSE <<>>
     /\ loads' = IF r.user # user /\ r.user # NULL
                   THEN [r.loads EXCEPT ![r.user] = @ + 1] ELSE r.loads
     /\ migrations' = IF starts THEN Append(r.migrations, newMigration(r.guest, r.user, nMigrations + 1))
                      ELSE r.migrations
     /\ nMigrations' = IF starts THEN nMigrations + 1 ELSE nMigrations

\* displayError: whether the two setters change the state (and so cause a render)
displayErrorRenders(message) == error # message \/ ~showError

\* a Firestore call rejects: injected (within the budget), or forced
CanFail(forced) == forced \/ nEvents < budget
Failure(forced) == nEvents' = IF forced THEN nEvents ELSE nEvents + 1

\* a user event, or an event of another tab
Event == nEvents < budget /\ nEvents' = nEvents + 1

NoCall == [op |-> "none"]

\* no tab is modelled apart from the app's own
Tabs == {1, 2}
NoTabs == [t \in Tabs |-> [storedValue |-> <<>>, inbox |-> <<>>]]

\* Storage.getItem of a key that was never set
NullItem == [kind |-> "null", value |-> <<>>]

\* the CAPTCHA after the mount of a guest, and after the header's Sign Out:
\* setCaptchaCompleted(false) and setItem('captcha-completed', 'false')
CaptchaReset == [captchaCompleted |-> FALSE, item |-> "false", timer |-> FALSE]

\* nothing in flight, nothing shown
Idle ==
  /\ activeConversationId = NoId
  /\ conversationHistory = <<>>
  /\ isLoading = FALSE
  /\ error = NULL
  /\ showError = FALSE
  /\ submission = NoSubmission
  /\ migrations = <<>>
  /\ loads = [u \in Users |-> 0]
  /\ deletions = {}
  /\ nEvents = 0
  /\ nMigrations = 0
  /\ call = NoCall
  /\ sessionStorage = NullItem
  /\ userMessages = {}
  /\ tabs = NoTabs
  /\ captcha = CaptchaReset

\* the app is mounted, nobody is signed in yet
Init ==
  /\ build = "current"
  /\ budget = MaxEvents
  /\ user = NULL
  /\ localStorage \in PriorGuestConversations
  /\ guestConversations = localStorage
  /\ authConversations = <<>>
  /\ db = <<>>
  /\ Idle

\* a session under one identity: a guest, or a user whose conversations are loaded
SessionInit(b) ==
  /\ build = b
  /\ budget = MaxSessionEvents
  /\ \/ /\ user = NULL
        /\ localStorage \in PriorGuestConversations
        /\ db = <<>>
     \/ /\ user \in Users
        /\ localStorage = <<>>
        /\ db \in PriorDocuments(user)
  /\ guestConversations = localStorage
  /\ authConversations = getUserConversations(db, user)
  /\ Idle

\* a handleSubmit without the early return of its first line
handleSubmitUnguarded(input) ==
  /\ Event
  /\ isLoading' = TRUE
  /\ showError' = FALSE
  /\ submission' = [NoSubmission EXCEPT !.pc = "generating", !.input = input,
                      !.history = conversationHistory,
                      !.activeConversationId = activeConversationId,
                      !.user = user, !.guestConversations = guestConversations,
                      !.n = nEvents + 1]
  /\ Commit(Same)
  /\ UNCHANGED <<call, feedbackVars, tabs, captcha, build, budget, error, db, deletions>>

\* handleSubmit up to the call of generateResponse
handleSubmit(input) ==
  /\ Trim(input) # ""
  /\ ~isLoading
  /\ Event
  /\ isLoading' = TRUE
  /\ showError' = FALSE
  /\ submission' = [NoSubmission EXCEPT !.pc = "generating", !.input = input,
                      !.history = conversationHistory,
                      !.activeConversationId = activeConversationId,
                      !.user = user, !.guestConversations = guestConversations,
                      !.n = nEvents + 1]
  /\ Commit(Same)
  /\ UNCHANGED <<call, feedbackVars, tabs, captcha, build, budget, error, db, deletions>>

\* a catch block without the finally block: the loading flag stays set
handleSubmitFailedLoading ==
  /\ error' = SubmitError
  /\ showError' = TRUE
  /\ isLoading' = isLoading
  /\ submission' = NoSubmission
  /\ Commit(Same)

\* the catch and finally blocks of handleSubmit
handleSubmitFailed ==
  /\ error' = SubmitError
  /\ showError' = TRUE
  /\ isLoading' = FALSE
  /\ submission' = NoSubmission
  /\ Commit(Same)

\* handleSubmit from the return of generateResponse to its next await (or its end)
handleSubmitGenerated(response) ==
  LET s == submission
      updatedHistory == s.history \o newMessages(s.input, response)
      savedConversation == saveConversation(s.input, response, NULL, s.history, s.n)
  IN
  /\ s.pc = "generating"
  /\ IF s.activeConversationId # NoId /\ s.user = NULL THEN
       \* guest: update in local storage
       /\ Commit([Same EXCEPT
                    !.guest = MapUpdate(s.guestConversations, s.activeConversationId,
                                        [input |-> s.input, response |-> response,
                                         history |-> updatedHistory]),
                    !.gset = TRUE, !.history = updatedHistory,
                    !.fresh = {s.activeConversationId}])
       /\ isLoading' = FALSE
       /\ submission' = NoSubmission
     ELSE IF s.activeConversationId = NoId /\ s.user = NULL THEN
       \* guest: save as new conversation
       /\ Commit([Same EXCEPT
                    !.guest = <<savedConversation>> \o s.guestConversations,
                    !.gset = TRUE, !.id = savedConversation.id,
                    !.history = updatedHistory, !.fresh = {savedConversation.id}])
       /\ isLoading' = FALSE
       /\ submission' = NoSubmission
     ELSE
       \* authenticated: await updateConversationHistory or saveConversation
       /\ Commit([Same EXCEPT !.history = updatedHistory])
       /\ submission' = [s EXCEPT !.response = response,
                           !.pc = IF s.activeConversationId # NoId
                                    THEN "updating" ELSE "saving"]
       /\ UNCHANGED isLoading
  /\ UNCHANGED <<call, feedbackVars, tabs, captcha, build, budget, error, showError, db, deletions, nEvents>>

\* await updateConversationHistory(activeConversationId, inputText, response)
handleSubmitUpdated(ok) ==
  LET s == submission
      exists == s.activeConversationId \in IdsOf(db)
  IN
  /\ s.pc = "updating"
  /\ IF ok THEN
       /\ exists
       /\ db' = updateConversationHistory(db, s.activeConversationId, s.input,
                                          s.response, <<"tab", s.n>>)
       /\ submission' = [s EXCEPT !.pc = "reloading"]
       /\ UNCHANGED <<reactVars, migrations, loads, nMigrations, nEvents>>
     ELSE
       \* updateDoc rejects, also when the document no longer exists
       /\ CanFail(~exists)
       /\ Failure(~exists)
       /\ handleSubmitFailed
       /\ UNCHANGED db
  /\ UNCHANGED <<call, feedbackVars, tabs, captcha, build, budget, deletions>>

\* await saveConversation(inputText, response, user, conversationHistory)
handleSubmitSaved(ok) ==
  LET s == submission
      savedConversation == saveConversation(s.input, s.response, s.user, s.history, s.n)
  IN
  /\ s.pc = "saving"
  /\ IF ok THEN
       /\ db' = addDoc(db, baseConversation(s.input, s.response, s.user, s.history, s.n),
                       s.n, 0)
       /\ submission' = [s EXCEPT !.pc = "reloading", !.saved = savedConversation.id]
       /\ UNCHANGED <<reactVars, migrations, loads, nMigrations, nEvents>>
     ELSE
       /\ CanFail(FALSE)
       /\ Failure(FALSE)
       /\ handleSubmitFailed
       /\ UNCHANGED db
  /\ UNCHANGED <<call, feedbackVars, tabs, captcha, build, budget, deletions>>

\* await getUserConversations(user), then the rest of handleSubmit
handleSubmitReloaded(ok) ==
  LET s == submission
      userConversations == getUserConversations(db, s.user)
  IN
  /\ s.pc = "reloading"
  /\ IF ok THEN
       /\ Commit([Same EXCEPT
                    !.auth = userConversations,
                    !.id = IF s.activeConversationId = NoId THEN s.saved ELSE @,
                    !.fresh = IdsOf(userConversations)])
       /\ isLoading' = FALSE
       /\ submission' = NoSubmission
       /\ UNCHANGED <<error, showError, nEvents>>
     ELSE
       /\ CanFail(FALSE)
       /\ Failure(FALSE)
       /\ handleSubmitFailed
  /\ UNCHANGED <<call, feedbackVars, tabs, captcha, build, budget, db, deletions>>

\* the identity provider reports a signed-in user
signIn(u) ==
  /\ user = NULL
  /\ Event
  /\ Commit([Same EXCEPT !.user = u])
  /\ UNCHANGED <<call, feedbackVars, tabs, captcha, build, budget, isLoading, error, showError, db, submission, deletions>>

\* the identity provider reports the sign-out, as after the bottom navigation's
\* onAuthClick: user ? signOut() : setShowAuthModal(true)
signOut ==
  /\ user # NULL
  /\ Event
  /\ Commit([Same EXCEPT !.user = NULL])
  /\ UNCHANGED <<call, feedbackVars, tabs, captcha, build, budget, isLoading, error, showError, db, submission, deletions>>

\* loadUserConversations: the return of getUserConversations
loadUserConversations(u, ok) ==
  LET userConversations == getUserConversations(db, u)
      done == [loads EXCEPT ![u] = @ - 1]
  IN
  /\ loads[u] > 0
  /\ IF ok THEN
       /\ Commit([Same EXCEPT !.auth = userConversations,
                              !.fresh = IdsOf(userConversations), !.loads = done])
       /\ UNCHANGED <<error, showError, nEvents>>
     ELSE
       /\ CanFail(FALSE)
       /\ Failure(FALSE)
       /\ error' = LoadError
       /\ showError' = TRUE
       /\ Commit([Same EXCEPT !.rendered = displayErrorRenders(LoadError),
                              !.loads = done])
  /\ UNCHANGED <<call, feedbackVars, tabs, captcha, build, budget, isLoading, db, submission, deletions>>

\* transferGuestConversations: one addDoc of the batch settles
transferGuestConversations(k, ok) ==
  LET m == migrations[k]
      i == m.next
      last == i = Len(m.guestConversations)
      rejected == m.rejected \/ ~ok
      \* Promise.all: rejects with the first rejection, resolves after the last success
      after == IF ~last THEN [m EXCEPT !.next = i + 1, !.rejected = rejected]
               ELSE [m EXCEPT !.next = i + 1, !.rejected = rejected, !.pc = "reload"]
      rest == IF last /\ rejected THEN RemoveAt(migrations, k)
              ELSE [migrations EXCEPT ![k] = after]
  IN
  /\ m.pc = "transfer"
  /\ IF ok THEN
       /\ db' = addDoc(db, transferredConversation(m.guestConversations[i], m.user),
                       m.n, i)
       /\ migrations' = rest
       /\ UNCHANGED <<reactVars, loads, nMigrations, nEvents>>
     ELSE
       /\ CanFail(FALSE)
       /\ Failure(FALSE)
       /\ IF m.rejected THEN
            /\ migrations' = rest
            /\ UNCHANGED <<reactVars, loads, nMigrations>>
          ELSE
            \* the catch block of handleGuestToAuthTransition
            /\ error' = TransferError
            /\ showError' = TRUE
            /\ Commit([Same EXCEPT !.rendered = displayErrorRenders(TransferError),
                                   !.migrations = rest])
            /\ UNCHANGED isLoading
       /\ UNCHANGED db
  /\ UNCHANGED <<call, feedbackVars, tabs, captcha, build, budget, submission, deletions>>

\* handleGuestToAuthTransition after transferGuestConversations resolved
handleGuestToAuthTransition(k, ok) ==
  LET m == migrations[k]
      userConversations == getUserConversations(db, m.user)
      rest == RemoveAt(migrations, k)
  IN
  /\ m.pc = "reload"
  /\ IF ok THEN
       /\ Commit([Same EXCEPT !.auth = userConversations, !.guest = <<>>,
                              !.gset = TRUE, !.id = NoId, !.history = <<>>,
                              !.fresh = IdsOf(userConversations),
                              !.migrations = rest])
       /\ UNCHANGED <<error, showError, nEvents>>
     ELSE
       /\ CanFail(FALSE)
       /\ Failure(FALSE)
       /\ error' = TransferError
       /\ showError' = TRUE
       /\ Commit([Same EXCEPT !.rendered = displayErrorRenders(TransferError),
                              !.migrations = rest])
  /\ UNCHANGED <<call, feedbackVars, tabs, captcha, build, budget, isLoading, db, submission, deletions>>

handleSelectConversation(id) ==
  LET selectedConversation ==
        activeConversation(user, guestConversations, authConversations, id)[2][1]
      \* the stored history, or one made of the input and the response
      newHistory == IF selectedConversation.history # NoHistory
                    THEN selectedConversation.history
                    ELSE newMessages(selectedConversation.input, selectedConversation.response)
  IN
  /\ id \in IdsOf(conversations(user, guestConversations, authConversations))
  /\ Event
  /\ Commit([Same EXCEPT !.id = id, !.history = newHistory,
                         !.rendered = (id # activeConversationId \/
                                       conversationHistory # newHistory)])
  /\ UNCHANGED <<call, feedbackVars, tabs, captcha, build, budget, isLoading, error, showError, db, submission, deletions>>

\* also handleClearEverything
handleStartNewConversation ==
  /\ Event
  /\ Commit([Same EXCEPT !.id = NoId, !.history = <<>>])
  /\ UNCHANGED <<call, feedbackVars, tabs, captcha, build, budget, isLoading, error, showError, db, submission, deletions>>

\* handleDeleteConversation up to its await (authenticated) or its end (guest)
handleDeleteConversation(id) ==
  LET reset == [Same EXCEPT
                  !.id = IF activeConversationId = id THEN NoId ELSE @,
                  !.history = IF activeConversationId = id THEN <<>> ELSE @]
  IN
  /\ id \in IdsOf(conversations(user, guestConversations, authConversations))
  /\ Event
  /\ IF user # NULL THEN
       /\ deletions' = deletions \cup {[id |-> id, user |-> user, pc |-> "delete",
                                          activeConversationId |-> activeConversationId,
                                          n |-> nEvents + 1]}
       /\ Commit([reset EXCEPT !.rendered = (activeConversationId = id)])
     ELSE
       /\ Commit([reset EXCEPT
                    !.guest = SelectSeq(guestConversations, LAMBDA c : c.id # id),
                    !.gset = TRUE])
       /\ UNCHANGED deletions
  /\ UNCHANGED <<call, feedbackVars, tabs, captcha, build, budget, isLoading, error, showError, db, submission>>

\* handleDeleteConversation: the return of deleteConversation
handleDeleteConversationDeleted(d, ok) ==
  /\ d \in deletions
  /\ d.pc = "delete"
  /\ IF ok THEN
       /\ db' = deleteConversation(db, d.id)
       /\ deletions' = (deletions \ {d}) \cup {[d EXCEPT !.pc = "reload"]}
       /\ UNCHANGED <<reactVars, migrations, loads, nMigrations, nEvents>>
     ELSE
       /\ CanFail(FALSE)
       /\ Failure(FALSE)
       /\ error' = DeleteError
       /\ showError' = TRUE
       /\ deletions' = deletions \ {d}
       /\ Commit([Same EXCEPT !.rendered = displayErrorRenders(DeleteError)])
       /\ UNCHANGED <<db, isLoading>>
  /\ UNCHANGED <<call, feedbackVars, tabs, captcha, build, budget, submission>>

\* handleDeleteConversation: the return of getUserConversations
handleDeleteConversationReloaded(d, ok) ==
  LET userConversations == getUserConversations(db, d.user) IN
  /\ d \in deletions
  /\ d.pc = "reload"
  /\ deletions' = deletions \ {d}
  /\ IF ok THEN
       /\ Commit([Same EXCEPT !.auth = userConversations,
                              !.fresh = IdsOf(userConversations)])
       /\ UNCHANGED <<error, showError, nEvents>>
     ELSE
       /\ CanFail(FALSE)
       /\ Failure(FALSE)
       /\ error' = DeleteError
       /\ showError' = TRUE
       /\ Commit([Same EXCEPT !.rendered = displayErrorRenders(DeleteError)])
  /\ UNCHANGED <<call, feedbackVars, tabs, captcha, build, budget, isLoading, db, submission>>

\* the guest's 'Clear All' button
clearAll ==
  /\ user = NULL
  /\ guestConversations # <<>>
  /\ Event
  /\ Commit([Same EXCEPT !.guest = <<>>, !.gset = TRUE])
  /\ UNCHANGED <<call, feedbackVars, tabs, captcha, build, budget, isLoading, error, showError, db, submission, deletions>>

\* the error banner is dismissed, or its 5 s timer hides it
hideError ==
  /\ showError
  /\ Event
  /\ showError' = FALSE
  /\ Commit(Same)
  /\ UNCHANGED <<call, feedbackVars, tabs, captcha, build, budget, isLoading, error, db, submission, deletions>>

\* updateConversationHistory called by another tab of the same account
remoteUpdateConversationHistory(id, input, response) ==
  /\ id \in IdsOf(db)
  /\ Event
  /\ db' = updateConversationHistory(db, id, input, response, <<"other", nEvents + 1>>)
  /\ UNCHANGED <<call, feedbackVars, tabs, captcha, build, budget, reactVars, taskVars, nMigrations>>

Submission ==
  \/ \E input \in Inputs \cup BlankInputs : handleSubmit(input)
  \/ \E response \in Responses(submission.input) : handleSubmitGenerated(response)
  \/ \E ok \in BOOLEAN : handleSubmitUpdated(ok)
  \/ \E ok \in BOOLEAN : handleSubmitSaved(ok)
  \/ \E ok \in BOOLEAN : handleSubmitReloaded(ok)

Identity ==
  \/ \E u \in Users : signIn(u)
  \/ signOut
  \/ \E u \in Users, ok \in BOOLEAN : loadUserConversations(u, ok)
  \/ \E k \in 1..Len(migrations), ok \in BOOLEAN : transferGuestConversations(k, ok)
  \/ \E k \in 1..Len(migrations), ok \in BOOLEAN : handleGuestToAuthTransition(k, ok)

Selection ==
  \/ \E id \in IdsOf(guestConversations) \cup IdsOf(authConversations) :
       handleSelectConversation(id)
  \/ handleStartNewConversation
  \/ \E id \in IdsOf(guestConversations) \cup IdsOf(authConversations) :
       handleDeleteConversation(id)
  \/ \E d \in deletions, ok \in BOOLEAN : handleDeleteConversationDeleted(d, ok)
  \/ \E d \in deletions, ok \in BOOLEAN : handleDeleteConversationReloaded(d, ok)
  \/ clearAll
  \/ hideError

OtherTab ==
  \E id \in IdsOf(db), input \in Inputs : \E response \in Responses(input) :
    remoteUpdateConversationHistory(id, input, response)

Next == Submission \/ Identity \/ Selection \/ OtherTab

SessionNext == Submission \/ Selection \/ OtherTab

\* the app from its mount, with sign-in and sign-out
Spec == Init /\ [][Next]_vars

\* a session under one identity
SessionSpec == SessionInit("current") /\ [][SessionNext]_vars

\* the same with the legacy conversations service (part_000, lines 1-211)
LegacySpec == SessionInit("legacy") /\ [][SessionNext]_vars

\* the awaited call of the submission in flight returns or fails
handleSubmitReturns ==
  \/ \E response \in Responses(submission.input) : handleSubmitGenerated(response)
  \/ \E ok \in BOOLEAN : handleSubmitUpdated(ok)
  \/ \E ok \in BOOLEAN : handleSubmitSaved(ok)
  \/ \E ok \in BOOLEAN : handleSubmitReloaded(ok)

\* a session under one identity, as SessionInit, with the events of a progress run
LiveInit ==
  /\ build = "current"
  /\ budget = MaxLiveEvents
  /\ \/ /\ user = NULL
        /\ localStorage \in PriorGuestConversations
        /\ db = <<>>
     \/ /\ user \in Users
        /\ localStorage = <<>>
        /\ db \in PriorDocuments(user)
  /\ guestConversations = localStorage
  /\ authConversations = getUserConversations(db, user)
  /\ Idle

\* a session in which every external call of a submission eventually returns or fails
LiveSpec == LiveInit /\ [][SessionNext]_vars /\ WF_vars(handleSubmitReturns)

\* ------------------------------------------------ ai service: the context
\* scores in hundredths; the relevance threshold 0.7
Threshold == 70
Scores == {<<>>, <<50>>, <<70>>, <<71>>, <<90>>}      \* <<>>: score undefined
MetadataTexts == {<<>>, <<"a">>, <<"b">>}             \* <<>>: no metadata text
Matches == [score : Scores, text : MetadataTexts]

RECURSIVE SeqsUpTo(_, _)
\* the sequences over S of length at most n
SeqsUpTo(S, n) ==
  IF n = 0 THEN {<<>>}
  ELSE LET shorter == SeqsUpTo(S, n - 1)
       IN shorter \cup {Append(q, x) : q \in {r \in shorter : Len(r) = n - 1}, x \in S}

\* a threshold that lets a score of exactly 0.7 pass
relevantFromThreshold(match) == match.score # <<>> /\ match.score[1] >= Threshold

\* match.score !== undefined && match.score > 0.7
relevant(match) == match.score # <<>> /\ match.score[1] > Threshold

\* match.metadata?.text || ''
metadataText(match) == IF match.text = <<>> THEN "" ELSE match.text[1]

RECURSIVE join(_, _)
\* Array.prototype.join: the elements with sep between neighbours
join(texts, sep) ==
  IF texts = <<>> THEN ""
  ELSE IF Len(texts) = 1 THEN texts[1]
  ELSE join(SubSeq(texts, 1, Len(texts) - 1), sep) \o sep \o texts[Len(texts)]

\* generateResponse, step 3: filter, map, join
buildContext(matches) ==
  LET kept == SelectSeq(matches, relevant)
  IN join([i \in 1..Len(kept) |-> metadataText(kept[i])], "\n\n")

\* no user, no conversation, nothing in flight: the services are called alone
ServiceInit ==
  /\ build = "current"
  /\ budget = 0
  /\ user = NULL
  /\ localStorage = <<>>
  /\ guestConversations = <<>>
  /\ authConversations = <<>>
  /\ db = <<>>
  /\ Idle

\* index.query returned matches; the context is built from them
queryReturns(matches) ==
  /\ call' = [op |-> "buildContext", matches |-> matches, output |-> buildContext(matches)]
  /\ UNCHANGED <<feedbackVars, tabs, captcha, build, budget, reactVars, db, taskVars, countVars>>

\* ------------------------------------------------- embeddings service
\* A number is num / sqrt(den2); 0 / 0 is NaN.
Num(v) == [num |-> v, den2 |-> 1]
NaN == [num |-> 0, den2 |-> 0]
Components == {-1, 0, 1}
Vectors == [1..Dim -> {Num(c) : c \in Components}]

\* the weights 0.7 and 0.3 of the combination, in tenths
WeightOriginal == 7
WeightExpanded == 3

Return(value) == [raised |-> FALSE, value |-> value]
Raise(value) == [raised |-> TRUE, value |-> value]

\* What openai.chat.completions.create can do: kind "unconfigured" (no API
\* key, the call is not made), "throws", "nochoices" (choices[0] undefined),
\* or "content" with message.content null (<<>>), empty, or a text.
Completions(query) ==
  [kind : {"unconfigured", "throws", "nochoices"}, content : {<<>>}]
    \cup [kind : {"content"}, content : {<<>>, <<"">>, <<query>>, <<query \o " + terms">>}]

\* What openai.embeddings.create can do: fail, or return an embedding
\* (without API key generateEmbedding returns a random vector).
Embeddings == [ok : {FALSE}, embedding : {<<>>}] \cup [ok : {TRUE}, embedding : Vectors]

\* an expandQuery that returns the content as it is
expandQueryContent(query, completion) ==
  IF completion.kind \in {"unconfigured", "throws", "nochoices"} THEN Return(query)
  ELSE Return(IF completion.content = <<>> THEN "" ELSE completion.content[1])

\* expandQuery: the catch block returns the query; content || query
expandQuery(query, completion) ==
  IF completion.kind = "unconfigured" THEN Return(query)
  ELSE IF completion.kind \in {"throws", "nochoices"} THEN Return(query)
  ELSE IF completion.content = <<>> \/ completion.content = <<"">> THEN Return(query)
  ELSE Return(completion.content[1])

\* generateEmbedding: the catch block throws 'Failed to generate embedding'
generateEmbedding(result) ==
  IF result.ok THEN Return(result.embedding) ELSE Raise(<<>>)

\* originalEmbedding.map((val, idx) => val * 0.7 + expandedEmbedding[idx] * 0.3)
combinedEmbedding(original, expanded) ==
  [idx \in 1..Len(original) |->
     [num |-> original[idx].num * WeightOriginal + expanded[idx].num * WeightExpanded,
      den2 |-> 100]]

RECURSIVE sumOfSquares(_)
\* combinedEmbedding.reduce((sum, val) => sum + val * val, 0), in hundredths
sumOfSquares(v) ==
  IF v = <<>> THEN 0 ELSE Head(v).num * Head(v).num + sumOfSquares(Tail(v))

\* a result that is the combination itself, not divided by its magnitude
unnormalizedEmbedding(combined) == combined

\* combinedEmbedding.map(val => val / magnitude)
normalizedEmbedding(combined) ==
  LET magnitude2 == sumOfSquares(combined)
  IN [idx \in 1..Len(combined) |->
        IF magnitude2 = 0 /\ combined[idx].num = 0 THEN NaN
        ELSE [num |-> combined[idx].num, den2 |-> magnitude2]]

\* a catch block that throws instead of falling back
generateEnhancedEmbeddingThrows(query, completion, original, expanded, fallback) ==
  LET expandedQuery == expandQuery(query, completion).value
      originalEmbedding == generateEmbedding(original)
      expandedEmbedding == generateEmbedding(expanded)
  IN IF originalEmbedding.raised THEN Raise(<<>>)
     ELSE IF expandedQuery = query THEN originalEmbedding
     ELSE IF expandedEmbedding.raised THEN Raise(<<>>)
     ELSE Return(normalizedEmbedding(combinedEmbedding(originalEmbedding.value,
                                                        expandedEmbedding.value)))

\* generateEnhancedEmbedding; original, expanded and fallback are what the
\* three calls of openai.embeddings.create do (if they are made)
generateEnhancedEmbedding(query, completion, original, expanded, fallback) ==
  LET expandedQuery == expandQuery(query, completion).value
      originalEmbedding == generateEmbedding(original)
      expandedEmbedding == generateEmbedding(expanded)
  IN IF originalEmbedding.raised THEN generateEmbedding(fallback)
     ELSE IF expandedQuery = query THEN originalEmbedding
     ELSE IF expandedEmbedding.raised THEN generateEmbedding(fallback)
     ELSE Return(normalizedEmbedding(combinedEmbedding(originalEmbedding.value,
                                                        expandedEmbedding.value)))

\* a call of expandQuery
expandQueryReturns(query, completion) ==
  /\ call' = [op |-> "expandQuery", query |-> query, completion |-> completion,
              output |-> expandQuery(query, completion)]
  /\ UNCHANGED <<feedbackVars, tabs, captcha, build, budget, reactVars, db, taskVars, countVars>>

\* a call of generateEnhancedEmbedding (generateResponse, step 1)
generateEnhancedEmbeddingReturns(query, completion, original, expanded, fallback) ==
  /\ call' = [op |-> "generateEnhancedEmbedding", query |-> query,
              completion |-> completion, original |-> original,
              expanded |-> expanded, fallback |-> fallback,
              output |-> generateEnhancedEmbedding(query, completion, original,
                                                   expanded, fallback)]
  /\ UNCHANGED <<feedbackVars, tabs, captcha, build, budget, reactVars, db, taskVars, countVars>>

\* ------------------------------------- ai service: topics and entities
\* JavaScript values of a field of the parsed object
JsUndefined == [kind |-> "undefined", items |-> <<>>]
JsString == [kind |-> "string", items |-> <<>>]
JsList(items) == [kind |-> "list", items |-> items]
JsValues == {JsUndefined, JsString} \cup {JsList(l) : l \in {<<>>, <<"t1">>, <<"t1", "t2">>}}

\* What JSON.parse does with the matched text: it throws, or returns null
\* (a value without fields), or an object
ParseError == [kind |-> "error", entities |-> JsUndefined, topics |-> JsUndefined]
JsonNull == [kind |-> "null", entities |-> JsUndefined, topics |-> JsUndefined]
JsonObjects == [kind : {"object"}, entities : JsValues, topics : JsValues]

\* What client.messages.create can do for the extraction: kind "unconfigured"
\* (no API key, the call is not made), "throws", "nocontent" (content[0]
\* undefined), or "text". A text is "plain" (the regex does not match),
\* "emptyfence" (a json fence around white space), "fenced" (a json fence
\* around json) or "braces" (a brace to a brace, no fence).
ExtractionResponses ==
  [kind : {"unconfigured", "throws", "nocontent"}, form : {"none"}, json : {ParseError}]
    \cup [kind : {"text"}, form : {"plain", "emptyfence"}, json : {ParseError}]
    \cup [kind : {"text"}, form : {"fenced"}, json : {ParseError, JsonNull} \cup JsonObjects]
    \cup [kind : {"text"}, form : {"braces"}, json : {ParseError} \cup JsonObjects]

NoTopicsAndEntities == [entities |-> JsList(<<>>), topics |-> JsList(<<>>)]

\* Array.isArray
isArray(value) == value.kind = "list"

\* an extraction that returns the fields of the parsed object as they are
extractTopicsAndEntitiesUnchecked(response) ==
  IF response.kind \in {"unconfigured", "throws", "nocontent"} THEN Return(NoTopicsAndEntities)
  ELSE IF response.form = "plain" THEN Return(NoTopicsAndEntities)
  ELSE IF response.json.kind \in {"error", "null"} THEN Return(NoTopicsAndEntities)
  ELSE Return([entities |-> response.json.entities, topics |-> response.json.topics])

\* extractTopicsAndEntities: the outer catch covers the call, the inner catch
\* the parsing (match[1]?.trim() || match[0] hands the whole fence to
\* JSON.parse when the fence is empty; result.entities of null throws)
extractTopicsAndEntities(response) ==
  IF response.kind = "unconfigured" THEN Return(NoTopicsAndEntities)
  ELSE IF response.kind = "throws" THEN Return(NoTopicsAndEntities)
  ELSE IF response.kind = "nocontent" THEN Return(NoTopicsAndEntities)
  ELSE IF response.form = "plain" THEN Return(NoTopicsAndEntities)
  ELSE LET result == IF response.form = "emptyfence" THEN ParseError ELSE response.json
       IN IF result.kind \in {"error", "null"} THEN Return(NoTopicsAndEntities)
          ELSE Return([entities |-> IF isArray(result.entities) THEN result.entities
                                    ELSE JsList(<<>>),
                       topics |-> IF isArray(result.topics) THEN result.topics
                                  ELSE JsList(<<>>)])

\* a call of extractTopicsAndEntities (generateResponse, step 3.5)
extractTopicsAndEntitiesReturns(response) ==
  /\ call' = [op |-> "extractTopicsAndEntities", response |-> response,
              output |-> extractTopicsAndEntities(response)]
  /\ UNCHANGED <<feedbackVars, tabs, captcha, build, budget, reactVars, db, taskVars, countVars>>

\* ------------------------------------- ai service: the request to Claude
\* the system prompt template up to and after its placeholders
PromptHead ==
  "You are the Nongenetic Information AI assistant. [...]\n\nContext from the book:\n"
PromptTail ==
  "\n\nMaintain a friendly, helpful tone. [...]"

TopicLists == {<<>>, <<"t1">>, <<"t1", "t2">>}
Contexts == {"", "a"}
PersonalizedContexts == {"", "h1"}

\* topics.length > 0 ? `\nKey topics that might be relevant: ${topics.join(', ')}.` : ''
topicsSection(topics) ==
  IF Len(topics) > 0
  THEN "\nKey topics that might be relevant: " \o join(topics, ", ") \o "."
  ELSE ""

entitiesSection(entities) ==
  IF Len(entities) > 0
  THEN "\nKey biological entities that might be relevant: " \o join(entities, ", ") \o "."
  ELSE ""

\* personalizedContext ? `\n\nUser Context: ${personalizedContext}` : ''
personalizedSection(personalizedContext) ==
  IF personalizedContext # ""
  THEN "\n\nUser Context: " \o personalizedContext
  ELSE ""

\* the template literal: each placeholder is on a line of its own
systemPrompt(relevantContext, topics, entities, personalizedContext) ==
  PromptHead \o relevantContext \o "\n"
    \o topicsSection(topics) \o "\n"
    \o entitiesSection(entities) \o "\n"
    \o personalizedSection(personalizedContext)
    \o PromptTail

\* generateResponse, step 4
systemPromptCreated(relevantContext, topics, entities, personalizedContext) ==
  /\ call' = [op |-> "systemPrompt", relevantContext |-> relevantContext,
              topics |-> topics, entities |-> entities,
              personalizedContext |-> personalizedContext,
              output |-> systemPrompt(relevantContext, topics, entities,
                                      personalizedContext)]
  /\ UNCHANGED <<feedbackVars, tabs, captcha, build, budget, reactVars, db, taskVars, countVars>>

\* the {role, content} pairs a history can hold
FormattedMessages == [role : {"user", "assistant"}, content : {"q1", "r1"}]

\* conversationHistory.map(msg => ({role, content})), then the prompt is
\* pushed as a user message unless the content of the last message is the prompt
formattedMessages(history, prompt) ==
  LET mapped == [i \in 1..Len(history) |->
                   [role |-> history[i].role,
                    content |-> history[i].content]]
  IN IF Len(mapped) = 0 \/ mapped[Len(mapped)].content # prompt
     THEN Append(mapped, [role |-> "user", content |-> prompt])
     ELSE mapped

\* generateResponse, before step 5
messagesFormatted(history, prompt) ==
  /\ call' = [op |-> "formattedMessages", history |-> history,
              prompt |-> prompt,
              output |-> formattedMessages(history, prompt)]
  /\ UNCHANGED <<feedbackVars, tabs, captcha, build, budget, reactVars, db, taskVars, countVars>>

\* ------------------------------------ conversations service: the feedback
\* Message.feedback: undefined (no field), null, 'helpful' or 'notHelpful'
FeedbackValues == {"helpful", "notHelpful", "null"}

\* A message created at time stamp: its id holds Date.now(), so that two
\* stored messages with one id are copies of one message.
Message(stamp, feedback) ==
  [id |-> <<"m", stamp>>, role |-> "assistant", content |-> "a" \o ToString(stamp),
   timestamp |-> stamp, feedback |-> feedback]
Messages == {Message(stamp, feedback) : stamp \in 1..MaxStamp,
                                        feedback \in {"undefined", "helpful"}}

\* the ids recordResponseFeedback is called with
MessageIds == {<<"m", 1>>, <<"m", 2>>}

\* BaseConversation.history is optional: <<>> is a conversation stored
\* without the field, <<h>> one with the history h (ids unique within h)
Histories ==
  {<<>>} \cup {<<h>> : h \in {g \in SeqsUpTo(Messages, MaxHistory) :
                                \A i, j \in 1..Len(g) : g[i].id = g[j].id => i = j}}
StoredConversations(i) == [id : {<<"guest", i, 0>>}, input : {"q1"}, history : Histories]

\* the values of the 'guestConversations' item: never set, not JSON, or a
\* list of up to two conversations
InvalidItem == [kind |-> "invalid", value |-> <<>>]
stringify(value) == [kind |-> "json", value |-> value]
Items ==
  {NullItem, InvalidItem, stringify(<<>>)}
    \cup {stringify(<<c>>) : c \in StoredConversations(1)}
    \cup {stringify(<<c, d>>) : c \in StoredConversations(1), d \in StoredConversations(2)}

\* the documents of users/{userId}/messages: one per message id at most
Documents(u) ==
  LET states == [1..MaxDocuments -> {"absent", "helpful", "notHelpful"}]
  IN {{[userId |-> u, message |-> Message(stamp, s[stamp])] :
         stamp \in {t \in 1..MaxDocuments : s[t] # "absent"}} : s \in states}

\* getGuestConversations: JSON.parse of the item, [] when it is null or when
\* JSON.parse throws
getGuestConversations(item) == IF item.kind = "json" THEN item.value ELSE <<>>

\* a feedback that is a toggle: setting the value a message has clears it
toggleFeedback(msg, feedback) ==
  [msg EXCEPT !.feedback = IF msg.feedback = feedback THEN "null" ELSE feedback]

\* { ...msg, feedback }
setFeedback(msg, feedback) == [msg EXCEPT !.feedback = feedback]

\* conv.history?.map(...) || []
updatedMessages(conv, messageId, feedback) ==
  IF conv.history = <<>> THEN <<>>
  ELSE [j \in 1..Len(conv.history[1]) |->
          IF conv.history[1][j].id = messageId
          THEN setFeedback(conv.history[1][j], feedback)
          ELSE conv.history[1][j]]

\* updateDoc: rejects when the document does not exist
updateDoc(docs, userId, messageId, feedback) ==
  {IF d.userId = userId /\ d.message.id = messageId
   THEN [d EXCEPT !.message = setFeedback(d.message, feedback)] ELSE d : d \in docs}

\* recordResponseFeedback; ok: the Firestore request is answered.
\* The result is the value returned and the two stores after the call.
recordResponseFeedback(item, docs, userId, messageId, feedback, ok) ==
  IF userId = NULL
  THEN LET guest == getGuestConversations(item)
           updated == \E i \in 1..Len(guest) :
                        /\ guest[i].history # <<>>
                        /\ \E j \in 1..Len(guest[i].history[1]) :
                             guest[i].history[1][j].id = messageId
           updatedConversations ==
             [i \in 1..Len(guest) |->
                [guest[i] EXCEPT !.history = <<updatedMessages(guest[i], messageId, feedback)>>]]
       IN IF updated
          THEN [output |-> TRUE, sessionStorage |-> stringify(updatedConversations),
                userMessages |-> docs]
          ELSE [output |-> FALSE, sessionStorage |-> item, userMessages |-> docs]
  ELSE IF ok /\ \E d \in docs : d.userId = userId /\ d.message.id = messageId
       THEN [output |-> TRUE, sessionStorage |-> item,
             userMessages |-> updateDoc(docs, userId, messageId, feedback)]
       ELSE [output |-> FALSE, sessionStorage |-> item, userMessages |-> docs]

\* a call of recordResponseFeedback
recordResponseFeedbackReturns(userId, messageId, feedback, ok) ==
  LET result == recordResponseFeedback(sessionStorage, userMessages, userId,
                                       messageId, feedback, ok)
      args == <<userId, messageId, feedback>>
  IN /\ Event
     /\ sessionStorage' = result.sessionStorage
     /\ userMessages' = result.userMessages
     /\ call' = [op |-> "recordResponseFeedback", args |-> args, ok |-> ok,
                 output |-> result.output,
                 repeated |-> call.op = "recordResponseFeedback" /\ call.args = args]
     /\ UNCHANGED <<tabs, captcha, build, budget, reactVars, db, taskVars, nMigrations>>

\* the first line of a personalized context
ContextHeader ==
  "Based on your previous positive interactions, these topics were helpful to you:\n"

\* slice(0, 3) of the guest branch and limit(5) of the query
GuestLimit == 3
AuthLimit == 5

RECURSIVE sortByTimestampDesc(_)
\* Array.prototype.sort((a, b) => b.timestamp - a.timestamp): stable,
\* greatest timestamp first
sortByTimestampDesc(messages) ==
  IF messages = <<>> THEN <<>>
  ELSE LET sorted == sortByTimestampDesc(SubSeq(messages, 1, Len(messages) - 1))
           msg == messages[Len(messages)]
           k == Cardinality({i \in 1..Len(sorted) : sorted[i].timestamp >= msg.timestamp})
       IN SubSeq(sorted, 1, k) \o <<msg>> \o SubSeq(sorted, k + 1, Len(sorted))

\* slice(0, n)
slice(messages, n) == SubSeq(messages, 1, IF Len(messages) < n THEN Len(messages) ELSE n)

RECURSIVE flatMapHelpful(_)
\* guestConversations.flatMap(conv => conv.history?.filter(helpful) || [])
flatMapHelpful(guest) ==
  IF guest = <<>> THEN <<>>
  ELSE (IF Head(guest).history = <<>> THEN <<>>
        ELSE SelectSeq(Head(guest).history[1], LAMBDA msg : msg.feedback = "helpful"))
       \o flatMapHelpful(Tail(guest))

RECURSIVE orderByTimestampDesc(_)
\* orderBy('timestamp', 'desc') of a set of documents
orderByTimestampDesc(docs) ==
  IF docs = {} THEN <<>>
  ELSE LET first == CHOOSE d \in docs : \A e \in docs : e.message.timestamp <= d.message.timestamp
       IN <<first.message>> \o orderByTimestampDesc(docs \ {first})

\* a guest branch that does not sort the helpful messages
recentHelpfulUnsorted(helpfulMessages) ==
  LET recent == slice(helpfulMessages, GuestLimit)
  IN join([i \in 1..Len(recent) |-> recent[i].content], "\n\n")

\* helpfulMessages.sort(...).slice(0, 3).map(msg => msg.content).join('\n\n')
recentHelpful(helpfulMessages) ==
  LET recent == slice(sortByTimestampDesc(helpfulMessages), GuestLimit)
  IN join([i \in 1..Len(recent) |-> recent[i].content], "\n\n")

\* getPersonalizedContext; ok: the Firestore query is answered (the catch
\* block returns '')
getPersonalizedContext(item, docs, userId, ok) ==
  IF userId = NULL
  THEN LET helpfulMessages == flatMapHelpful(getGuestConversations(item))
       IN IF Len(helpfulMessages) = 0 THEN ""
          ELSE ContextHeader \o recentHelpful(helpfulMessages)
  ELSE IF ~ok THEN ""
  ELSE LET helpfulSnapshot ==
             slice(orderByTimestampDesc({d \in docs : /\ d.userId = userId
                                                      /\ d.message.feedback = "helpful"}),
                   AuthLimit)
       IN IF helpfulSnapshot = <<>> THEN ""
          ELSE ContextHeader
                 \o join([i \in 1..Len(helpfulSnapshot) |-> helpfulSnapshot[i].content], "\n\n")

\* a call of getPersonalizedContext
getPersonalizedContextReturns(userId, ok) ==
  /\ Event
  /\ call' = [op |-> "getPersonalizedContext", userId |-> userId, ok |-> ok,
              output |-> getPersonalizedContext(sessionStorage, userMessages, userId, ok)]
  /\ UNCHANGED <<feedbackVars, tabs, captcha, build, budget, reactVars, db, taskVars, nMigrations>>

\* generateResponse(inputText, conversationHistory) of handleSubmit: the
\* third parameter takes its default value, userId = null
generateResponseArguments(inputText, history) ==
  [prompt |-> inputText, conversationHistory |-> history, userId |-> NULL]

\* handleSubmit calls generateResponse, which gets the personalized context
\* of its userId (step 3.6); user is the identity that submits
personalizedContextRequested(inputText) ==
  LET args == generateResponseArguments(inputText, conversationHistory)
  IN /\ Event
     /\ call' = [op |-> "generateResponse", user |-> user, prompt |-> args.prompt,
                 userId |-> args.userId,
                 personalizedContext |->
                   getPersonalizedContext(sessionStorage, userMessages, args.userId, TRUE)]
     /\ UNCHANGED <<feedbackVars, tabs, captcha, build, budget, reactVars, db, taskVars, nMigrations>>

\* ------------------------------------- ai service: generateResponse
\* the text of the catch block, and the response without API keys
GenerationError ==
  "Sorry, there was an error generating a response. Please try again later."
mockResponse(prompt) == "This is a mock AI response to: \"" \o prompt \o "\""

\* no request was sent to Claude
NoRequest == [system |-> "", messages |-> <<>>]

\* What the services do during one request.  keys: whether VITE_CLAUDE_API_KEY
\* and VITE_PINECONE_API_KEY are set; completion, original, expanded, fallback:
\* the calls of generateEnhancedEmbedding; query: index.query throws, answers
\* without matches, or with matches; extraction: the call of
\* extractTopicsAndEntities; response: the final client.messages.create
\* throws, answers without content, or with a text.
Worlds ==
  [keys : [claude : BOOLEAN, pinecone : BOOLEAN],
   completion : {[kind |-> "throws", content |-> <<>>],
                 [kind |-> "content", content |-> <<"q1 + terms">>]},
   original : {[ok |-> FALSE, embedding |-> <<>>],
               [ok |-> TRUE, embedding |-> [i \in 1..Dim |-> Num(1)]]},
   expanded : {[ok |-> FALSE, embedding |-> <<>>],
               [ok |-> TRUE, embedding |-> [i \in 1..Dim |-> Num(1)]]},
   fallback : {[ok |-> FALSE, embedding |-> <<>>],
               [ok |-> TRUE, embedding |-> [i \in 1..Dim |-> Num(1)]]},
   query : {[kind |-> "throws", matches |-> <<>>],
            [kind |-> "undefined", matches |-> <<>>],
            [kind |-> "matches", matches |-> <<>>],
            [kind |-> "matches", matches |-> <<[score |-> <<90>>, text |-> <<"a">>]>>]},
   extraction : {[kind |-> "throws", form |-> "none", json |-> ParseError],
                 [kind |-> "text", form |-> "braces",
                  json |-> [kind |-> "object", entities |-> JsList(<<"t1">>),
                            topics |-> JsString]]},
   response : {[kind |-> "throws", text |-> ""],
               [kind |-> "nocontent", text |-> ""],
               [kind |-> "text", text |-> "r1"]}]

\* a generateResponse whose catch block throws the error again
generateResponseRethrows(prompt, history, userId, world) ==
  IF ~world.keys.claude \/ ~world.keys.pinecone
  THEN [raised |-> FALSE, value |-> mockResponse(prompt), calls |-> <<>>,
        request |-> NoRequest]
  ELSE LET embedding == generateEnhancedEmbedding(prompt, world.completion, world.original,
                                                  world.expanded, world.fallback)
       IN IF embedding.raised \/ world.query.kind # "matches" \/ world.response.kind # "text"
          THEN [raised |-> TRUE, value |-> "", calls |-> <<"embeddings">>,
                request |-> NoRequest]
          ELSE [raised |-> FALSE, value |-> world.response.text,
                calls |-> <<"embeddings", "index", "extraction", "completion">>,
                request |-> NoRequest]

\* generateResponse: the result, and the services it called.  Every step is
\* inside the try block; the request of step 5 holds the system prompt and
\* the messages.
generateResponse(prompt, history, userId, world) ==
  IF ~world.keys.claude \/ ~world.keys.pinecone
  THEN [raised |-> FALSE, value |-> mockResponse(prompt), calls |-> <<>>,
        request |-> NoRequest]
  ELSE LET embedding == generateEnhancedEmbedding(prompt, world.completion, world.original,
                                                  world.expanded, world.fallback)
           relevantContext == buildContext(world.query.matches)
           extracted == extractTopicsAndEntities(world.extraction).value
           personalizedContext ==
             getPersonalizedContext(sessionStorage, userMessages, userId, TRUE)
           request == [system |-> systemPrompt(relevantContext, extracted.topics.items,
                                               extracted.entities.items, personalizedContext),
                       messages |-> formattedMessages(history, prompt)]
       IN IF embedding.raised
          THEN [raised |-> FALSE, value |-> GenerationError, calls |-> <<"embeddings">>,
                request |-> NoRequest]
          ELSE IF world.query.kind \in {"throws", "undefined"}
          THEN [raised |-> FALSE, value |-> GenerationError,
                calls |-> <<"embeddings", "index">>, request |-> NoRequest]
          ELSE IF world.response.kind \in {"throws", "nocontent"}
          THEN [raised |-> FALSE, value |-> GenerationError,
                calls |-> <<"embeddings", "index", "extraction", "completion">>,
                request |-> request]
          ELSE [raised |-> FALSE, value |-> world.response.text,
                calls |-> <<"embeddings", "index", "extraction", "completion">>,
                request |-> request]

\* a call of generateResponse by a guest's handleSubmit
generateResponseReturns(prompt, history, world) ==
  /\ call' = [op |-> "response", prompt |-> prompt, world |-> world,
              output |-> generateResponse(prompt, history, NULL, world)]
  /\ UNCHANGED <<feedbackVars, tabs, captcha, build, budget, reactVars, db, taskVars, countVars>>

\* one call in a run
ServiceNext ==
  \/ /\ call = NoCall
     /\ \E matches \in SeqsUpTo(Matches, MaxMatches) : queryReturns(matches)
  \/ /\ call = NoCall
     /\ \E query \in Inputs : \E completion \in Completions(query) :
          expandQueryReturns(query, completion)
  \/ /\ call = NoCall
     /\ \E query \in Inputs : \E completion \in Completions(query) :
          \E original, expanded, fallback \in Embeddings :
            generateEnhancedEmbeddingReturns(query, completion, original, expanded, fallback)
  \/ /\ call = NoCall
     /\ \E response \in ExtractionResponses : extractTopicsAndEntitiesReturns(response)
  \/ /\ call = NoCall
     /\ \E relevantContext \in Contexts : \E topics, entities \in TopicLists :
          \E personalizedContext \in PersonalizedContexts :
            systemPromptCreated(relevantContext, topics, entities, personalizedContext)
  \/ /\ call = NoCall
     /\ \E history \in SeqsUpTo(FormattedMessages, MaxHistory) :
          \E prompt \in {"q1", "r1"} : messagesFormatted(history, prompt)
  \/ /\ call = NoCall
     /\ \E world \in Worlds : generateResponseReturns("q1", <<>>, world)

\* the functions of the ai and embeddings services, called on their own
ServiceSpec == ServiceInit /\ [][ServiceNext]_vars

\* the stores of the feedback, as a browser and a project can hold them
FeedbackInit ==
  /\ build = "current"
  /\ budget = MaxCalls
  /\ \/ /\ user = NULL
        /\ sessionStorage \in Items
        /\ userMessages = {}
     \/ /\ user \in Users
        /\ sessionStorage \in {NullItem, stringify(<<[id |-> <<"guest", 1, 0>>, input |-> "q1",
                                                      history |-> <<<<Message(1, "helpful")>>>>]>>)}
        /\ userMessages \in Documents(user)
  /\ localStorage = <<>>
  /\ guestConversations = <<>>
  /\ authConversations = <<>>
  /\ db = <<>>
  /\ activeConversationId = NoId
  /\ conversationHistory = <<>>
  /\ isLoading = FALSE
  /\ error = NULL
  /\ showError = FALSE
  /\ submission = NoSubmission
  /\ migrations = <<>>
  /\ loads = [u \in Users |-> 0]
  /\ deletions = {}
  /\ nEvents = 0
  /\ nMigrations = 0
  /\ call = NoCall
  /\ tabs = NoTabs
  /\ captcha = CaptchaReset

FeedbackNext ==
  \/ \E userId \in {NULL} \cup Users : \E messageId \in MessageIds :
       \E feedback \in FeedbackValues : \E ok \in IF userId = NULL THEN {TRUE} ELSE BOOLEAN :
         recordResponseFeedbackReturns(userId, messageId, feedback, ok)
  \/ \E userId \in {NULL} \cup Users : \E ok \in IF userId = NULL THEN {TRUE} ELSE BOOLEAN :
       getPersonalizedContextReturns(userId, ok)
  \/ \E inputText \in {"q1"} : personalizedContextRequested(inputText)

\* the feedback functions of the conversations service, called one after another
FeedbackSpec == FeedbackInit /\ [][FeedbackNext]_vars

\* the ids of the messages of the guest conversations the app has stored
GuestMessageIds ==
  {m.id : m \in UNION {Range(c.history) : c \in Range(localStorage)}} \ {NoStamp}

\* a guest session of the app, in a browser whose sessionStorage is empty
GuestInit ==
  /\ build = "current"
  /\ budget = MaxGuestEvents
  /\ user = NULL
  /\ localStorage \in PriorGuestConversations
  /\ guestConversations = localStorage
  /\ authConversations = <<>>
  /\ db = <<>>
  /\ Idle

GuestNext ==
  \/ \E input \in Inputs : handleSubmit(input)
  \/ \E response \in Responses(submission.input) : handleSubmitGenerated(response)
  \/ \E messageId \in GuestMessageIds : \E feedback \in FeedbackValues :
       recordResponseFeedbackReturns(NULL, messageId, feedback, TRUE)
  \/ getPersonalizedContextReturns(NULL, TRUE)

\* a guest submits, and gives feedback on the messages of the conversations
GuestSpec == GuestInit /\ [][GuestNext]_vars

\* a guest whose stored conversations are of different ages: with a history,
\* or without the field
SelectionInit ==
  /\ build = "current"
  /\ budget = MaxSelections
  /\ user = NULL
  /\ localStorage \in {<<PriorA>>, <<PriorWithoutHistory>>, <<PriorWithoutHistory, PriorA>>}
  /\ guestConversations = localStorage
  /\ authConversations = <<>>
  /\ db = <<>>
  /\ Idle

SelectionNext ==
  \/ \E id \in IdsOf(guestConversations) : handleSelectConversation(id)
  \/ handleStartNewConversation
  \/ \E input \in Inputs : handleSubmit(input)
  \/ \E response \in Responses(submission.input) : handleSubmitGenerated(response)

\* the guest selects conversations, starts new ones and submits
SelectionSpec == SelectionInit /\ [][SelectionNext]_vars

\* ------------------------------------------------ useLocalStorage, two tabs
\* Two tabs of one browser hold the hook for 'guest-conversations'; the item
\* is shared.  Storage.setItem sends a storage event with the new value to the
\* other tab when it changes the item.
other(t) == 3 - t

\* the event a write of value sends to the tab t, if it changes the item
sent(inbox, value) == IF localStorage # value THEN Append(inbox, value) ELSE inbox

\* a listener that keeps what the tab holds and adds what the other tab wrote
mergeStoredValue(storedValue, newValue) ==
  newValue \o SelectSeq(storedValue, LAMBDA c : c \notin Range(newValue))

\* setStoredValue(JSON.parse(e.newValue))
nextStoredValue(storedValue, newValue) == newValue

\* setValue(value) in tab t: setStoredValue, setItem; the sync effect of the
\* render writes the same value again
setValue(t, value) ==
  /\ Event
  /\ tabs' = [tabs EXCEPT ![t].storedValue = value,
                          ![other(t)].inbox = sent(@, value)]
  /\ localStorage' = value
  /\ UNCHANGED <<call, feedbackVars, captcha, build, budget, user, guestConversations,
                 authConversations, activeConversationId, conversationHistory,
                 isLoading, error, showError, db, taskVars, nMigrations>>

\* handleStorageChange in tab t for the first event to come (e.key === key,
\* e.newValue a JSON text), then the sync effect of the render
handleStorageChange(t) ==
  /\ tabs[t].inbox # <<>>
  /\ LET newValue == Head(tabs[t].inbox)
         storedValue == nextStoredValue(tabs[t].storedValue, newValue)
     IN /\ tabs' = [tabs EXCEPT ![t].storedValue = storedValue,
                                ![t].inbox = Tail(@),
                                ![other(t)].inbox = sent(@, storedValue)]
        /\ localStorage' = storedValue
  /\ UNCHANGED <<call, feedbackVars, captcha, build, budget, user, guestConversations,
                 authConversations, activeConversationId, conversationHistory,
                 isLoading, error, showError, db, taskVars, countVars>>

\* what the app passes to setGuestConversations: the collection of the tab
\* with a new conversation in front, or the empty collection ('Clear All')
ValuesToStore(t) ==
  {<<<<"guest", nEvents + 1, 0>>>> \o tabs[t].storedValue, <<>>}

\* both tabs are mounted on the same item
TabsInit ==
  /\ build = "current"
  /\ budget = MaxWrites
  /\ user = NULL
  /\ localStorage \in {<<>>, <<<<"guest", -1, 0>>>>}
  /\ tabs = [t \in Tabs |-> [storedValue |-> localStorage, inbox |-> <<>>]]
  /\ guestConversations = <<>>
  /\ authConversations = <<>>
  /\ db = <<>>
  /\ activeConversationId = NoId
  /\ conversationHistory = <<>>
  /\ isLoading = FALSE
  /\ error = NULL
  /\ showError = FALSE
  /\ submission = NoSubmission
  /\ migrations = <<>>
  /\ loads = [u \in Users |-> 0]
  /\ deletions = {}
  /\ nEvents = 0
  /\ nMigrations = 0
  /\ call = NoCall
  /\ sessionStorage = NullItem
  /\ userMessages = {}
  /\ captcha = CaptchaReset

TabsNext ==
  \/ \E t \in Tabs : \E value \in ValuesToStore(t) : setValue(t, value)
  \/ \E t \in Tabs : handleStorageChange(t)

\* two tabs write the guest conversations and hear of each other's writes
TabsSpec == TabsInit /\ [][TabsNext]_vars

\* the same, and each tab's event loop delivers the storage events sent to it
TabsLiveSpec ==
  TabsInit /\ [][TabsNext]_vars /\ \A t \in Tabs : WF_vars(handleStorageChange(t))

\* ------------------------------------------------------------ the CAPTCHA
\* events of a run with the CAPTCHA
MaxCaptchaEvents == 4

\* Captcha's onSuccess; the Captcha is rendered when !user && !captchaCompleted
handleCaptchaSuccess ==
  /\ user = NULL
  /\ ~captcha.captchaCompleted
  /\ captcha' = [captcha EXCEPT !.captchaCompleted = TRUE, !.item = "true"]
  /\ UNCHANGED <<call, feedbackVars, tabs, build, budget, reactVars, db, taskVars, countVars>>

\* the header's Sign Out: signOut(), setCaptchaCompleted(false),
\* setTimeout(syncCaptchaState, 100), setItem('captcha-completed', 'false')
signOutClicked ==
  /\ user # NULL
  /\ Event
  /\ Commit([Same EXCEPT !.user = NULL])
  /\ captcha' = [CaptchaReset EXCEPT !.timer = TRUE]
  /\ UNCHANGED <<call, feedbackVars, tabs, build, budget, isLoading, error, showError, db, submission, deletions>>

\* the timer of the header's Sign Out: syncFromStorage
syncFromStorage ==
  /\ captcha.timer
  /\ captcha' = [captcha EXCEPT !.captchaCompleted = (captcha.item = "true"), !.timer = FALSE]
  /\ UNCHANGED <<call, feedbackVars, tabs, build, budget, reactVars, db, taskVars, countVars>>

\* the form's submit button, rendered unless !user && !captchaCompleted
submitForm(input) ==
  /\ user # NULL \/ captcha.captchaCompleted
  /\ handleSubmit(input)

\* the app is mounted by a guest without conversations: the effect of the
\* mount has reset the CAPTCHA
CaptchaInit ==
  /\ build = "current"
  /\ budget = MaxCaptchaEvents
  /\ user = NULL
  /\ localStorage = <<>>
  /\ guestConversations = <<>>
  /\ authConversations = <<>>
  /\ db = <<>>
  /\ Idle

\* signOut is the sign-out of the bottom navigation (onAuthClick)
CaptchaNext ==
  \/ handleCaptchaSuccess
  \/ \E input \in Inputs \cup BlankInputs : submitForm(input)
  \/ handleSubmitReturns
  \/ \E u \in Users : signIn(u)
  \/ signOut
  \/ signOutClicked
  \/ syncFromStorage
  \/ \E u \in Users, ok \in BOOLEAN : loadUserConversations(u, ok)
  \/ \E k \in 1..Len(migrations), ok \in BOOLEAN : transferGuestConversations(k, ok)
  \/ \E k \in 1..Len(migrations), ok \in BOOLEAN : handleGuestToAuthTransition(k, ok)

CaptchaSpec == CaptchaInit /\ [][CaptchaNext]_vars

\* ------------------------------------------------------------ two accounts
\* events of a run in which two accounts sign in
MaxAccountEvents == 4

\* the accounts that sign in, one after the other, in one session of the app
Accounts == {"u1", "u2"}

\* the app is mounted by a guest without conversations; the store holds
\* conversations of the accounts
AccountsInit ==
  /\ build = "current"
  /\ budget = MaxAccountEvents
  /\ user = NULL
  /\ localStorage = <<>>
  /\ guestConversations = <<>>
  /\ authConversations = <<>>
  /\ db \in {<<saveConversation("q1", "r1", "u1", <<>>, -1)>>,
             <<saveConversation("q1", "r1", "u1", <<>>, -1),
               saveConversation("q2", "r2", "u2", <<>>, -2)>>}
  /\ activeConversationId = NoId
  /\ conversationHistory = <<>>
  /\ isLoading = FALSE
  /\ error = NULL
  /\ showError = FALSE
  /\ submission = NoSubmission
  /\ migrations = <<>>
  /\ loads = [u \in Accounts |-> 0]
  /\ deletions = {}
  /\ nEvents = 0
  /\ nMigrations = 0
  /\ call = NoCall
  /\ sessionStorage = NullItem
  /\ userMessages = {}
  /\ tabs = NoTabs
  /\ captcha = CaptchaReset

AccountsNext ==
  \/ \E u \in Accounts : signIn(u)
  \/ signOut
  \/ \E u \in Accounts, ok \in BOOLEAN : loadUserConversations(u, ok)
  \/ \E input \in Inputs : handleSubmit(input)
  \/ handleSubmitReturns
  \/ hideError

AccountsSpec == AccountsInit /\ [][AccountsNext]_vars

\* ---------------------------------------- a submission and the ai service
\* events of a run whose responses come from generateResponse
MaxGenerationEvents == 3

\* the services during a submission: the keys are set or not, the embedding of
\* the query, the index and the completion fail or not
SubmissionWorlds ==
  {world \in Worlds :
     /\ world.keys.claude = world.keys.pinecone
     /\ world.completion.kind = "content"
     /\ world.expanded = world.original
     /\ ~world.fallback.ok
     /\ world.query.kind # "undefined"
     /\ world.query.kind = "matches" => world.query.matches # <<>>
     /\ world.extraction.kind = "text"
     /\ world.response.kind # "nocontent"}

\* handleSubmit after `await generateResponse(inputText, conversationHistory)`
\* in the world of the submission
handleSubmitResponded(world) ==
  handleSubmitGenerated(
    generateResponse(submission.input, submission.history, NULL, world).value)

GenerationInit ==
  /\ build = "current"
  /\ budget = MaxGenerationEvents
  /\ \/ /\ user = NULL
        /\ localStorage \in PriorGuestConversations
        /\ db = <<>>
     \/ /\ user \in Users
        /\ localStorage = <<>>
        /\ db \in PriorDocuments(user)
  /\ guestConversations = localStorage
  /\ authConversations = getUserConversations(db, user)
  /\ Idle

GenerationNext ==
  \/ \E input \in Inputs : handleSubmit(input)
  \/ \E world \in SubmissionWorlds : handleSubmitResponded(world)
  \/ \E ok \in BOOLEAN : handleSubmitUpdated(ok)
  \/ \E ok \in BOOLEAN : handleSubmitSaved(ok)
  \/ \E ok \in BOOLEAN : handleSubmitReloaded(ok)
  \/ \E id \in IdsOf(guestConversations) \cup IdsOf(authConversations) :
       handleSelectConversation(id)
  \/ handleStartNewConversation

GenerationSpec == GenerationInit /\ [][GenerationNext]_vars

\* ------------------------------------------------------------ properties
\* no async call of the app is in flight
Quiescent ==
  /\ submission.pc = "idle"
  /\ migrations = <<>>
  /\ \A u \in Users : loads[u] = 0
  /\ deletions = {}

\* d holds the exchange data of c
Copy(c, d) == d.input = c.input /\ d.response = c.response /\ d.history = c.history

OwnedBy(d, u) == d.userId = u /\ d.userType = "auth"

\* C1: after a sign-in with N >= 1 guest conversations and no failed Firestore
\* call, once nothing is in flight the durable store holds one record per guest
\* conversation, none duplicated, each owned by the user with the same input,
\* response and history; the guest store is empty; and, the sign-in being the
\* only event, the records are exactly the N copies, no conversation is active
\* and the active history is empty.
C1_MigrationTransfersEachConversationOnce ==
  (user # NULL /\ error = NULL /\ Quiescent) =>
    /\ localStorage = <<>>
    /\ guestConversations = <<>>
    /\ \A i, j \in 1..Len(db) : Copy(db[i], db[j]) => i = j
    /\ \A i \in 1..Len(db) : OwnedBy(db[i], user)
    /\ nEvents = 1 =>
         /\ \E g \in PriorGuestConversations :
              /\ Len(db) = Len(g)
              /\ \A i \in 1..Len(g) : \E j \in 1..Len(db) : Copy(g[i], db[j])
         /\ activeConversationId = NoId
         /\ conversationHistory = <<>>

\* C2: when an addDoc of a migration fails, the guest store still holds every
\* conversation the migration started with, unchanged, and the first failure
\* of the batch shows the transfer error.
C2_FailedMigrationKeepsGuestStore ==
  [][\A k \in 1..Len(migrations) :
       transferGuestConversations(k, FALSE) =>
         /\ \A i \in 1..Len(migrations[k].guestConversations) :
              migrations[k].guestConversations[i] \in Range(localStorage')
         /\ ~migrations[k].rejected => (showError' /\ error' = TransferError)]_vars

\* C3: a migration starts only in the step that signs the user in.
C3_MigrationOncePerSignIn ==
  [][nMigrations' > nMigrations => (user = NULL /\ user' # NULL)]_vars

\* C4: no conversation is held by the guest store and by the durable store at
\* the same time.
C4_ExclusiveOwnership ==
  \A i \in 1..Len(localStorage), j \in 1..Len(db) : ~Copy(localStorage[i], db[j])

\* new is old with one exchange (user message, then assistant message) appended,
\* and input and response are the contents of the two
AppendedExchange(old, new) ==
  /\ Len(new.history) = Len(old.history) + 2
  /\ SubSeq(new.history, 1, Len(old.history)) = old.history
  /\ new.history[Len(new.history) - 1].role = "user"
  /\ new.history[Len(new.history)].role = "assistant"
  /\ new.input = new.history[Len(new.history) - 1].content
  /\ new.response = new.history[Len(new.history)].content

\* every conversation of store that a step changed got one exchange appended
StoreAppends(store, store2) ==
  \A i \in 1..Len(store), j \in 1..Len(store2) :
    (store[i].id = store2[j].id /\ store[i] # store2[j]) =>
      AppendedExchange(store[i], store2[j])

\* C5: a step that changes a stored conversation, in the guest store or in the
\* durable store, appends the user and the assistant message of one exchange
\* to the history it had, keeping the old entries in order, and sets input and
\* response to that exchange.
C5_AppendExchangeKeepsHistory ==
  [][StoreAppends(localStorage, localStorage') /\ StoreAppends(db, db')]_vars

\* the conversations the submission in flight added to store
Created(store, store2) ==
  {store2[j] : j \in {k \in 1..Len(store2) : /\ store2[k].id \notin IdsOf(store)
                                              /\ store2[k].id[2] = submission.n}}

\* C6: a conversation that a submission creates has as history exactly the
\* user and the assistant message of that submission and is owned by the
\* current identity; it is the active conversation when the submission ends.
C6_NewConversationHoldsOneExchange ==
  [][/\ \A c \in Created(localStorage, localStorage') \cup Created(db, db') :
          /\ Len(c.history) = 2
          /\ c.history[1].role = "user" /\ c.history[1].content = c.input
          /\ c.history[2].role = "assistant" /\ c.history[2].content = c.response
          /\ c.userId = user
     /\ \A c \in Created(localStorage, localStorage') : activeConversationId' = c.id
     /\ (submission.saved # NoId /\ handleSubmitReloaded(TRUE)) =>
          activeConversationId' = submission.saved]_vars

\* input and response of c are the contents of the last two entries of its history
Mirrors(c) ==
  c.history # <<>> =>
    /\ Len(c.history) >= 2
    /\ c.history[Len(c.history) - 1].role = "user"
    /\ c.history[Len(c.history) - 1].content = c.input
    /\ c.history[Len(c.history)].role = "assistant"
    /\ c.history[Len(c.history)].content = c.response

\* C7: in every state, input and response of every stored conversation (guest
\* store, durable store, and the copies the app holds) are the contents of the
\* last user and the last assistant message, the last two entries of history.
C7_InputResponseMirrorHistory ==
  \A c \in Range(localStorage) \cup Range(guestConversations)
            \cup Range(db) \cup Range(authConversations) : Mirrors(c)

\* a document that this tab and another tab both appended to
HasStamp(c, tab) == \E i \in 3..Len(c.history) : c.history[i].id[1] = tab

C7_Witness ==
  \E c \in Range(db) : HasStamp(c, "tab") /\ HasStamp(c, "other") /\ Len(c.history) >= 6

\* C8: every stored history has even length and alternates user, assistant.
C8_HistoriesPairedAndAlternating ==
  \A c \in Range(localStorage) \cup Range(db) :
    /\ Len(c.history) % 2 = 0
    /\ \A i \in 1..Len(c.history) :
         c.history[i].role = IF i % 2 = 1 THEN "user" ELSE "assistant"

\* C9: an append to a document keeps every message the document held, in
\* order, and adds both messages of the exchange, whichever of two tabs'
\* appends reaches the store first.
C9_ConcurrentAppendsKeepAllMessages ==
  [][\A i \in 1..Len(db), j \in 1..Len(db') :
       (db[i].id = db'[j].id /\ db[i] # db'[j]) =>
         /\ Len(db'[j].history) = Len(db[i].history) + 2
         /\ SubSeq(db'[j].history, 1, Len(db[i].history)) = db[i].history]_vars

\* another tab's append (made after this tab's submission began) reached the
\* document before this tab's append, and the document holds all four messages
C9_Witness ==
  \E c \in Range(db) : \E i \in 3..Len(c.history) :
    /\ i + 3 <= Len(c.history)
    /\ c.history[i].id[1] = "other" /\ c.history[i + 1].id[1] = "other"
    /\ c.history[i + 2].id[1] = "tab" /\ c.history[i + 3].id[1] = "tab"
    /\ c.history[i].id[2] > c.history[i + 2].id[2]

\* C10: a conversation of the guest store is a guest conversation (userType
\* guest, no user id, a local guest id); a document of the durable store, and
\* its loaded copy, is an authenticated one (userType auth, a user id).
C10_OneOwnerKind ==
  /\ \A c \in Range(localStorage) \cup Range(guestConversations) :
       c.userType = "guest" /\ c.userId = NULL /\ c.id[1] = "guest"
  /\ \A c \in Range(db) \cup Range(authConversations) :
       c.userType = "auth" /\ c.userId \in Users /\ c.id[1] = "doc"

\* the durable store holds a migrated conversation and one saved by a
\* submission of the signed-in user, while the guest store is not yet cleared
C10_Witness ==
  /\ \E c \in Range(db) : c.id[3] > 0
  /\ \E c \in Range(db) : c.id[3] = 0
  /\ localStorage # <<>>

\* C11: when the durable write of a submission fails (saveConversation or
\* updateConversationHistory rejects), the error is shown and the app's state
\* is the state before the submission; in particular the active history does
\* not keep the exchange of the failed submission.
C11_FailedWriteLeavesStateUnchanged ==
  [][(handleSubmitSaved(FALSE) \/ handleSubmitUpdated(FALSE)) =>
       /\ showError' /\ error' = SubmitError
       /\ authConversations' = authConversations
       /\ conversationHistory' #
            submission.history \o newMessages(submission.input, submission.response)]_vars

\* store without the conversation id, the others unchanged and in order
Without(store, id) == SelectSeq(store, LAMBDA c : c.id # id)

\* C12: deleting conversation id removes exactly that conversation from the
\* store that owns it (the guest store, or the durable store of a signed-in
\* user) and leaves every other conversation as it was; the active id and the
\* active history are cleared if id was the active conversation and are
\* unchanged otherwise, also when the list is reloaded after the delete.
C12_DeleteRemovesExactlyOne ==
  [][/\ \A id \in IdsOf(guestConversations) \cup IdsOf(authConversations) :
          handleDeleteConversation(id) =>
            /\ user = NULL =>
                 /\ guestConversations' = Without(guestConversations, id)
                 /\ localStorage' = Without(localStorage, id)
            /\ user # NULL => guestConversations' = guestConversations
            /\ IF activeConversationId = id
                 THEN activeConversationId' = NoId /\ conversationHistory' = <<>>
                 ELSE /\ activeConversationId' = activeConversationId
                      /\ conversationHistory' = conversationHistory
     /\ \A d \in deletions :
          /\ handleDeleteConversationDeleted(d, TRUE) => db' = Without(db, d.id)
          /\ handleDeleteConversationReloaded(d, TRUE) =>
               IF activeConversationId = d.id
                 THEN activeConversationId' = NoId /\ conversationHistory' = <<>>
                 ELSE /\ activeConversationId' = activeConversationId
                      /\ conversationHistory' = conversationHistory]_vars

\* C13: when the durable delete fails, the conversation is still in the list
\* and, if it was the active conversation when the delete was requested (and
\* the user did nothing since), a conversation is still active with its history.
C13_FailedDeleteLeavesStateUnchanged ==
  [][\A d \in deletions :
       handleDeleteConversationDeleted(d, FALSE) =>
         /\ authConversations' = authConversations
         /\ (d.n = nEvents /\ d.activeConversationId = d.id) =>
              /\ activeConversationId' # NoId
              /\ conversationHistory' # <<>>]_vars

\* C14: the loading flag is set exactly while a submission is outstanding;
\* while it is set no submit event starts a submission, and a submit event
\* with empty or whitespace-only input never does.
C14_OneSubmissionAtATime ==
  /\ isLoading <=> submission.pc # "idle"
  /\ isLoading => ~ENABLED (\E input \in Inputs \cup BlankInputs : handleSubmit(input))
  /\ ~ENABLED (\E input \in BlankInputs : handleSubmit(input))

\* a submission is outstanding, the user acted since it began and can act again
C14_Witness ==
  /\ submission.pc = "updating"
  /\ isLoading
  /\ nEvents > submission.n
  /\ nEvents < budget

\* C15: every accepted submission eventually leaves the loading state, so
\* that a new submission is accepted, whether its calls succeed or fail.
C15_SubmissionReturnsToInteractive ==
  isLoading ~> (~isLoading /\ submission.pc = "idle")

\* a submission whose durable write failed has returned the app to the
\* interactive state
C15_Witness ==
  /\ ~isLoading
  /\ submission.pc = "idle"
  /\ error = SubmitError
  /\ showError

\* a conversation of store ends with the exchange (input, response)
HoldsExchange(store, input, response) ==
  \E i \in 1..Len(store) :
    LET h == store[i].history IN
    /\ Len(h) >= 2
    /\ h[Len(h) - 1].role = "user" /\ h[Len(h) - 1].content = input
    /\ h[Len(h)].role = "assistant" /\ h[Len(h)].content = response

\* C16: a submission that ends without an error has stored its exchange: a
\* guest's submission in the guest store, in the step that ends it; a
\* signed-in user's in the durable store, in the step of its write.
C16_CompletedSubmissionIsPersisted ==
  [][/\ \A response \in Responses(submission.input) :
          (submission.user = NULL /\ handleSubmitGenerated(response)) =>
            HoldsExchange(localStorage', submission.input, response)
     /\ (handleSubmitUpdated(TRUE) \/ handleSubmitSaved(TRUE)) =>
          HoldsExchange(db', submission.input, submission.response)]_vars

RECURSIVE ContextOf(_)
\* the texts of the matches with a defined score above 0.7, in order, a blank
\* line between one and the next
ContextOf(matches) ==
  IF matches = <<>> THEN ""
  ELSE LET m == Head(matches)
           rest == ContextOf(Tail(matches))
           passes == m.score # <<>> /\ m.score[1] > 70
           more == \E i \in 2..Len(matches) :
                     matches[i].score # <<>> /\ matches[i].score[1] > 70
       IN IF ~passes THEN rest
          ELSE IF more THEN metadataText(m) \o "\n\n" \o rest
          ELSE metadataText(m)

\* C17: the context built from a ranked list of matches is the texts of the
\* matches whose score is defined and greater than 0.7, in ranked order,
\* joined by a blank line; removing a match with score <= 0.7 or undefined
\* does not change it; it is empty when no match passes.
C17_ContextHoldsOnlyRelevantMatches ==
  call.op = "buildContext" =>
    /\ call.output = ContextOf(call.matches)
    /\ \A i \in 1..Len(call.matches) :
         (call.matches[i].score = <<>> \/ call.matches[i].score[1] <= 70) =>
           buildContext(RemoveAt(call.matches, i)) = call.output
    /\ (\A i \in 1..Len(call.matches) :
          call.matches[i].score = <<>> \/ call.matches[i].score[1] <= 70) =>
         call.output = ""

\* the list of the example: a passing match between a match at the
\* threshold and one without score
C17_Witness ==
  /\ call.op = "buildContext"
  /\ Len(call.matches) = 3
  /\ call.matches[1].score = <<70>>
  /\ call.matches[2].score = <<90>> /\ call.matches[2].text = <<"a">>
  /\ call.matches[3].score = <<>>
  /\ call.output = "a"

\* the expansion changed the query of the call
Expanded(c) == expandQuery(c.query, c.completion).value # c.query

\* C18: when the expansion changed the query, both embeddings were returned
\* and their weighted combination is the zero vector, the result is the
\* original embedding; no returned vector has a NaN component.
C18_ZeroMagnitudeReturnsOriginal ==
  (call.op = "generateEnhancedEmbedding" /\ ~call.output.raised) =>
    /\ \A i \in 1..Len(call.output.value) : call.output.value[i] # NaN
    /\ (/\ Expanded(call) /\ call.original.ok /\ call.expanded.ok
        /\ \A i \in 1..Dim :
             7 * call.original.embedding[i].num + 3 * call.expanded.embedding[i].num = 0)
         => call.output.value = call.original.embedding

\* C19: when embedding the original or the expanded query fails, the result
\* is what the fallback call of generateEmbedding gives; the call raises only
\* if that fallback call fails; when only the expansion fails, the result is
\* the original embedding.
C19_FailureFallsBackToEmbed ==
  call.op = "generateEnhancedEmbedding" =>
    LET failed == ~call.original.ok \/ (Expanded(call) /\ ~call.expanded.ok)
    IN /\ failed =>
            IF call.fallback.ok
              THEN ~call.output.raised /\ call.output.value = call.fallback.embedding
              ELSE call.output.raised
       /\ call.output.raised => (failed /\ ~call.fallback.ok)
       /\ (call.completion.kind \in {"throws", "nochoices"} /\ call.original.ok) =>
            (~call.output.raised /\ call.output.value = call.original.embedding)

\* embedding the expanded query failed and the fallback call returned
C19_Witness ==
  /\ call.op = "generateEnhancedEmbedding"
  /\ Expanded(call)
  /\ call.original.ok /\ ~call.expanded.ok /\ call.fallback.ok
  /\ call.fallback.embedding # call.original.embedding
  /\ call.output = Return(call.fallback.embedding)

\* C20: expandQuery never raises; when the completion service is
\* unconfigured, fails, or returns no or empty content, it returns the query.
C20_ExpandQueryNeverRaises ==
  call.op = "expandQuery" =>
    /\ ~call.output.raised
    /\ (\/ call.completion.kind \in {"unconfigured", "throws", "nochoices"}
        \/ call.completion.content \in {<<>>, <<"">>})
         => call.output.value = call.query

\* the completion returned empty content and the query came back
C20_Witness ==
  /\ call.op = "expandQuery"
  /\ call.completion.kind = "content"
  /\ call.completion.content = <<"">>
  /\ call.output = Return(call.query)

\* the extraction found no parsed object: the service is unconfigured or
\* failed, the response holds no JSON object, or parsing it failed
ExtractionFailed(response) ==
  \/ response.kind \in {"unconfigured", "throws", "nocontent"}
  \/ response.form \in {"plain", "emptyfence"}
  \/ response.json.kind \in {"error", "null"}

\* C21: extractTopicsAndEntities never raises and returns two lists; a field
\* is the empty list when the extraction failed or when the field of the
\* parsed object is not a list, and the parsed list otherwise.
C21_ExtractionNeverRaises ==
  call.op = "extractTopicsAndEntities" =>
    LET response == call.response
        output == call.output
    IN /\ ~output.raised
       /\ isArray(output.value.entities) /\ isArray(output.value.topics)
       /\ ExtractionFailed(response) => output.value = NoTopicsAndEntities
       /\ ~ExtractionFailed(response) =>
            /\ output.value.entities =
                 IF isArray(response.json.entities) THEN response.json.entities
                 ELSE JsList(<<>>)
            /\ output.value.topics =
                 IF isArray(response.json.topics) THEN response.json.topics
                 ELSE JsList(<<>>)

\* a parsed object whose entities are not a list and whose topics are one
C21_Witness ==
  /\ call.op = "extractTopicsAndEntities"
  /\ call.response.kind = "text" /\ call.response.form = "fenced"
  /\ call.response.json.kind = "object"
  /\ call.response.json.entities = JsString
  /\ call.response.json.topics = JsList(<<"t1">>)
  /\ call.output = Return([entities |-> JsList(<<>>), topics |-> JsList(<<"t1">>)])

\* the system prompt in which only the non-empty sections have a line
PromptOfSections(relevantContext, sections) ==
  LET emitted == SelectSeq(sections, LAMBDA section : section # "")
  IN PromptHead \o relevantContext
       \o join([i \in 1..Len(emitted) |-> "\n" \o emitted[i]], "")
       \o PromptTail

\* C22: the system prompt holds the topics line, the entities line and the
\* personalization section only when their source is non-empty, and an empty
\* section leaves no line behind: with all three empty the prompt is the
\* persona, the context and the closing instructions alone.
C22_EmptySectionsLeaveNoLine ==
  call.op = "systemPrompt" =>
    call.output =
      PromptOfSections(call.relevantContext,
                       <<topicsSection(call.topics), entitiesSection(call.entities),
                         personalizedSection(call.personalizedContext)>>)

\* C23: the messages sent to Claude are the history in order followed by the
\* current user turn, which is appended unless the history already ends with it.
C23_LastMessageIsTheUserTurn ==
  call.op = "formattedMessages" =>
    LET history == call.history
        turn == [role |-> "user", content |-> call.prompt]
        output == call.output
    IN /\ output[Len(output)] = turn
       /\ output = IF history # <<>> /\ history[Len(history)] = turn
                   THEN history ELSE Append(history, turn)

\* the messages a store holds: of the guest item, or of the documents of the user
StoredMessages(item, docs, userId) ==
  IF userId = NULL
  THEN UNION {Range(c.history[1]) :
                c \in {d \in Range(getGuestConversations(item)) : d.history # <<>>}}
  ELSE {d.message : d \in {e \in docs : e.userId = userId}}

\* C24: recordResponseFeedback is idempotent. When a call is repeated with the
\* same arguments (both calls answered), the second call leaves both stores as
\* the first left them and returns what the first returned; after a call that
\* returned true every message with the id has the feedback that was passed,
\* whatever it had before (an overwrite, not a toggle).
C24_RecordFeedbackIsIdempotent ==
  [][(call'.op = "recordResponseFeedback" /\ call'.repeated /\ call.ok /\ call'.ok) =>
       /\ sessionStorage' = sessionStorage
       /\ userMessages' = userMessages
       /\ call'.output = call.output
       /\ call'.output =>
            \A m \in StoredMessages(sessionStorage', userMessages', call'.args[1]) :
              m.id = call'.args[2] => m.feedback = call'.args[3]]_vars

\* a guest call that found the message, made a second time
C24_Witness ==
  /\ call.op = "recordResponseFeedback" /\ call.repeated
  /\ call.args[1] = NULL /\ call.args[3] = "helpful"
  /\ call.output
  /\ \E m \in StoredMessages(sessionStorage, userMessages, NULL) :
       m.id = call.args[2] /\ m.feedback = "helpful"

\* the positions <<i, j>> of the messages with the id in the guest conversations
MatchesOf(guest, messageId) ==
  {<<i, j>> \in (1..Len(guest)) \X (1..MaxHistory + 1) :
     /\ guest[i].history # <<>>
     /\ j <= Len(guest[i].history[1])
     /\ guest[i].history[1][j].id = messageId}

\* the first of them in the order of the scan
FirstMatch(guest, messageId) ==
  CHOOSE p \in MatchesOf(guest, messageId) :
    \A q \in MatchesOf(guest, messageId) : p[1] < q[1] \/ (p[1] = q[1] /\ p[2] <= q[2])

\* C25: a guest call of recordResponseFeedback returns true exactly when a
\* stored message has the id; then the stored collection differs from the one
\* before only in the feedback of the first such message (conversations
\* without history stay without); otherwise the item is not touched.  The
\* documents of the users are never touched.
C25_GuestFeedbackChangesOneMessage ==
  [][(call'.op = "recordResponseFeedback" /\ call'.args[1] = NULL) =>
       LET guest == getGuestConversations(sessionStorage)
           messageId == call'.args[2]
           p == FirstMatch(guest, messageId)
       IN /\ userMessages' = userMessages
          /\ call'.output = (MatchesOf(guest, messageId) # {})
          /\ IF MatchesOf(guest, messageId) = {}
             THEN sessionStorage' = sessionStorage
             ELSE sessionStorage' =
                    stringify([guest EXCEPT ![p[1]].history[1][p[2]].feedback =
                                               call'.args[3]])]_vars

\* the helpful messages of the guest item
HelpfulGuestMessages ==
  {m \in StoredMessages(sessionStorage, userMessages, NULL) : m.feedback = "helpful"}

RECURSIVE IsRecentFirst(_)
\* no message is older than the one after it
IsRecentFirst(messages) ==
  \/ Len(messages) <= 1
  \/ /\ messages[1].timestamp >= messages[2].timestamp
     /\ IsRecentFirst(Tail(messages))

\* the sequences of k helpful guest messages, most recent first, beside which
\* no helpful message is more recent
MostRecentHelpful(k) ==
  {ms \in [1..k -> HelpfulGuestMessages] :
     /\ IsRecentFirst(ms)
     /\ \A m \in HelpfulGuestMessages :
          \A i \in 1..k : m.timestamp > ms[i].timestamp => \E j \in 1..k : ms[j] = m}

\* the number of helpful messages the guest item holds, copies counted
NumberOfHelpful == Len(flatMapHelpful(getGuestConversations(sessionStorage)))

\* C26 as stated: the guest context is the empty string when no stored message
\* is helpful, and otherwise the contents of the at most 3 most recent helpful
\* messages, most recent first, joined by a blank line.
C26_GuestContextIsTheContents ==
  (call.op = "getPersonalizedContext" /\ call.userId = NULL) =>
    IF NumberOfHelpful = 0 THEN call.output = ""
    ELSE LET k == IF NumberOfHelpful < GuestLimit THEN NumberOfHelpful ELSE GuestLimit
         IN \E ms \in MostRecentHelpful(k) :
              call.output = join([i \in 1..k |-> ms[i].content], "\n\n")

\* C26 as amended: the guest context is the empty string when no stored message
\* is helpful, and otherwise the header line followed by the contents of the at
\* most 3 most recent helpful messages, most recent first, joined by a blank line.
C26_GuestContextIsHeaderAndContents ==
  (call.op = "getPersonalizedContext" /\ call.userId = NULL) =>
    IF NumberOfHelpful = 0 THEN call.output = ""
    ELSE LET k == IF NumberOfHelpful < GuestLimit THEN NumberOfHelpful ELSE GuestLimit
         IN \E ms \in MostRecentHelpful(k) :
              call.output = ContextHeader \o join([i \in 1..k |-> ms[i].content], "\n\n")

\* four helpful messages, the oldest stored first: the context holds the
\* three most recent ones
C26_Witness ==
  /\ call.op = "getPersonalizedContext" /\ call.userId = NULL
  /\ NumberOfHelpful = 4
  /\ \A stamp \in 1..4 : Message(stamp, "helpful") \in HelpfulGuestMessages
  /\ getGuestConversations(sessionStorage)[1].history[1][1] = Message(1, "helpful")
  /\ call.output = ContextHeader \o "a4\n\na3\n\na2"

\* C27: the personalization snapshot of a generation request is the one of the
\* identity that submits it: built from the user's helpful documents (at most
\* 5) for a signed-in user, from the helpful messages of the guest item (at
\* most 3) for a guest.
C27_SnapshotIsOfTheSubmitter ==
  call.op = "generateResponse" =>
    /\ call.userId = user
    /\ call.personalizedContext =
         getPersonalizedContext(sessionStorage, userMessages, user, TRUE)

\* C28: the feedback functions work on the collection the app stores the guest
\* conversations in: a guest call of recordResponseFeedback with the id of a
\* message of a stored guest conversation returns true, and when it flags the
\* message helpful the guest context is built from that message.
C28_FeedbackFindsGuestMessages ==
  (/\ call.op = "recordResponseFeedback"
   /\ call.args[1] = NULL
   /\ call.args[2] \in GuestMessageIds) =>
    /\ call.output
    /\ call.args[3] = "helpful" =>
         \E m \in HelpfulGuestMessages : m.id = call.args[2]

\* C29: when a conversation is selected, once the render and its effects are
\* done, the active history is the stored history of the conversation, or,
\* for a conversation stored without one, the two messages made of its input
\* and its response.
C29_SelectionShowsTheHistory ==
  [][\A id \in IdsOf(guestConversations) :
       handleSelectConversation(id) =>
         LET selected == CHOOSE c \in Range(guestConversations) : c.id = id
         IN /\ activeConversationId' = id
            /\ conversationHistory' =
                 IF selected.history # NoHistory THEN selected.history
                 ELSE << [role |-> "user", content |-> selected.input, id |-> NoStamp],
                         [role |-> "assistant", content |-> selected.response,
                          id |-> NoStamp] >>]_vars

GenerationFailed(world) ==
  \/ generateEnhancedEmbedding("q1", world.completion, world.original, world.expanded,
                               world.fallback).raised
  \/ world.query.kind # "matches"
  \/ world.response.kind # "text"

\* C31: generateResponse never raises.  Without the Claude or the Pinecone key
\* it returns the mock response and calls no service; otherwise a failure of
\* the embedding, of the index query or of the completion gives the generic
\* error message, and a request without failure gives the text of Claude.
C31_GenerateResponseNeverRaises ==
  call.op = "response" =>
    LET world == call.world
        output == call.output
    IN /\ ~output.raised
       /\ IF ~world.keys.claude \/ ~world.keys.pinecone
          THEN output.value = mockResponse(call.prompt) /\ output.calls = <<>>
          ELSE IF GenerationFailed(world) THEN output.value = GenerationError
          ELSE output.value = world.response.text

\* the keys are set, the embedding and the index answer, the completion fails
C31_Witness ==
  /\ call.op = "response"
  /\ call.world.keys = [claude |-> TRUE, pinecone |-> TRUE]
  /\ call.world.original.ok /\ call.world.expanded.ok
  /\ call.world.query.kind = "matches"
  /\ call.world.response.kind = "throws"
  /\ call.output.value = GenerationError
  /\ call.output.calls = <<"embeddings", "index", "extraction", "completion">>

RECURSIVE SumOfSquaredNums(_)
SumOfSquaredNums(v) ==
  IF v = <<>> THEN 0 ELSE Head(v).num * Head(v).num + SumOfSquaredNums(Tail(v))

\* C32: when the expansion changed the query, both embeddings were returned
\* and their combination is not the zero vector, the result is the vector
\* 0.7 * e0 + 0.3 * e1 divided by one positive number for all components, and
\* its L2 norm is 1 (each component is num / sqrt(den2): the squares of the
\* nums sum to den2).
C32_EnhancedEmbeddingIsUnitCombination ==
  (/\ call.op = "generateEnhancedEmbedding"
   /\ Expanded(call) /\ call.original.ok /\ call.expanded.ok
   /\ \E i \in 1..Dim :
        7 * call.original.embedding[i].num + 3 * call.expanded.embedding[i].num # 0) =>
    LET e0 == call.original.embedding
        e1 == call.expanded.embedding
        v == call.output.value
    IN /\ ~call.output.raised
       /\ Len(v) = Dim
       /\ \A i \in 1..Dim : v[i].num = 7 * e0[i].num + 3 * e1[i].num
       /\ \A i \in 1..Dim : v[i].den2 = v[1].den2 /\ v[i].den2 > 0
       /\ SumOfSquaredNums(v) = v[1].den2

\* two different embeddings are combined
C32_Witness ==
  /\ call.op = "generateEnhancedEmbedding"
  /\ Expanded(call) /\ call.original.ok /\ call.expanded.ok
  /\ call.original.embedding[1] = Num(1) /\ call.expanded.embedding[1] = Num(-1)
  /\ call.original.embedding[Dim] = Num(0) /\ call.expanded.embedding[Dim] = Num(1)
  /\ ~call.output.raised
  /\ call.output.value[1].num = 4 /\ call.output.value[Dim].num = 3
  /\ call.output.value[1].den2 >= 25

\* C33: every step in which a signed-in user becomes a guest leaves the
\* CAPTCHA not completed.
C33_SignOutResetsCaptcha ==
  [][(user # NULL /\ user' = NULL) => ~captcha'.captchaCompleted]_vars

\* the conversation collection of the current identity
CurrentConversations == conversations(user, guestConversations, authConversations)

\* C34: in every reachable state the active-conversation id is null or the id
\* of a conversation in the collection of the current identity.
C34_ActiveIdIsInTheCollection ==
  activeConversationId = NoId \/ activeConversationId \in IdsOf(CurrentConversations)

\* C35: when no generation request is outstanding and a conversation of the
\* current collection is active, the active history is the history of that
\* conversation (if the conversation has one).
C35_ActiveHistoryIsOfTheActiveConversation ==
  (submission = NoSubmission /\ activeConversationId \in IdsOf(CurrentConversations)) =>
    \E i \in 1..Len(CurrentConversations) :
      /\ CurrentConversations[i].id = activeConversationId
      /\ CurrentConversations[i].history # NoHistory =>
           conversationHistory = CurrentConversations[i].history

\* C36: a guest conversation that was in the collection when the submission
\* in flight started, and has been removed from it since, is not in the
\* collection after any step taken while the submission is in flight.
C36_CompletionKeepsRemovals ==
  [][(submission # NoSubmission /\ submission.user = NULL /\ user = NULL) =>
       \A id \in IdsOf(submission.guestConversations) \ IdsOf(guestConversations) :
         id \notin IdsOf(guestConversations')]_vars

\* C37: while a user is signed in, every conversation of the presented list
\* is owned by that user.
C37_ListIsOfTheSignedInUser ==
  user # NULL =>
    \A i \in 1..Len(authConversations) : authConversations[i].userId = user

\* no storage event is to come and both tabs hold the stored value
TabsQuiescent ==
  \A t \in Tabs : tabs[t].inbox = <<>> /\ tabs[t].storedValue = localStorage

\* C38: the two tabs eventually reach, and stay in, a state in which no
\* storage event is to come and both in-memory collections equal the stored
\* value.
C38_TabsBecomeQuiescent == <>[]TabsQuiescent

\* C39: when the keys are set and the embedding, the index or the completion
\* fails during a submission, the return of generateResponse adds no message
\* to the active history and changes no stored conversation.
C39_FailedGenerationAddsNothing ==
  [][\A world \in SubmissionWorlds :
       (/\ world.keys.claude /\ world.keys.pinecone
        /\ GenerationFailed(world)
        /\ handleSubmitResponded(world)) =>
         /\ conversationHistory' = conversationHistory
         /\ guestConversations' = guestConversations
         /\ localStorage' = localStorage
         /\ submission'.response # GenerationError]_vars

====
